---- MODULE Spec2Model ----
(***************************************************************************)
(* Incremental synchronizer of a Markdown vault into a vector store:       *)
(* FolderScanner -> FileTracker -> IncrementalSyncer -> ChromaStore, with  *)
(* the SyncRegistry recording what was synced.                             *)
(***************************************************************************)
EXTENDS Integers, Sequences, FiniteSets, TLC

\* ------------------------------------------------------------------ bounds

\* Longest chunk list a file's text is cut into.
MaxChunks == 2
\* Largest modification time a file can carry (mtimes are 0..MaxMtime).
MaxMtime == 1
\* Number of file-system edits in one behaviour.
MaxEdits == 1
\* Number of files whose operations fail in one cycle.
MaxFailures == 1
\* Longest list of current file states given to detect_changes.
MaxCurrent == 2

\* The vault's markdown files, and the order FolderScanner.scan returns them in.
Paths == {"a.md", "b.md"}
ScanOrder == <<"a.md", "b.md">>
\* Chunk texts.
Texts == {"x", "y"}
\* A file's text, given as the chunk texts semantic_chunk cuts it into
\* (semantic_chunk returns at least one chunk).
Contents == UNION {[1..n -> Texts] : n \in 1..MaxChunks}
Mtimes == 0..MaxMtime
\* Absolute vault roots.
VaultPaths == {"/vault"}
\* Python's None for the registry's vault_path.
NoVault == "None"

\* delete_chunks_by_prefix deletes this many consecutive indices.
PrefixDeleteSpan == 1000

\* --------------------------------------------------------------- variables

VARIABLES
    tree,       \* the vault on disk: relative_path -> [content, mtime]
    registry,   \* SyncRegistry._data: [files, vault_path]
    saved,      \* the registry document on disk
    store,      \* the collection: a set of rows [id, text, relative_path]
    result,     \* the SyncResult of the last cycle
    lastOp,     \* the last operation: "init", "edit", "sync", "full_sync",
                \* "set_vault_path"
    wasStable,  \* the last cycle started right after an error-free cycle
    swallowed,  \* paths whose overflow deletion failed silently in the last cycle
    edits,      \* number of edits so far, the clock that stamps mtimes
    \* a call of FileTracker.detect_changes
    dc_pc,          \* "off", "input", "done"
    dc_current,     \* its current_files argument
    dc_registry,    \* its registry_files argument
    dc_changes,     \* the ChangeSet it returned
    \* calls of ChromaStore.upsert_chunks
    up_rp,          \* relative_path of the last call
    up_chunks,      \* chunks of the last call
    up_ret,         \* what the last call returned
    up_sameN,       \* the last call had the path and chunk count of the call before
    up_repeat,      \* the last call had the path and chunks of the call before
    \* the modify / sync / revert / sync round trip
    rv_pc,          \* "off", "synced", "modified", "resynced", "reverted", "done"
    rv_path,        \* the file that is modified
    rv_orig,        \* its content before the modification
    rv_store0,      \* the store's rows before the modification
    \* one sync cycle followed step by step, and trigger_sync
    cy_pc,          \* "off", "idle", "files", "save", "writing", "stopped"
    cy_todo,        \* the per-file steps still to run: [kind, file_state, path]
    cy_skipped,     \* len(changes.unchanged) of the running cycle
    cy_file,        \* the registry file's content, a sequence of tokens
    tg_root,        \* the vault root of the settings
    tg_corrupt,     \* the last trigger found a registry file it could not parse
    tg_full,        \* the last trigger ran full_sync()
    \* trigger_sync's choice between sync() and full_sync()
    td_pc,          \* "off", "input", "done"
    td_stored,      \* registry.get_vault_path()
    td_current,     \* str(root_path.resolve())
    td_force,       \* force_reindex
    td_keys,        \* list(registry.files.keys())
    td_exists,      \* the registry keys that exist under the root
    td_full,        \* full_sync() was chosen
    \* concurrent calls of download_model for one model
    dl_lock,        \* the call holding _download_lock, or NoCall
    dl_state,       \* _download_states[model_id], or NoState
    dl_pc,          \* call -> its position
    dl_found,       \* call -> the status it found under the lock
    dl_ret,         \* call -> the ModelInfo it returned
    dl_did,         \* the calls that ran snapshot_download
    \* SelfCorrectingRAGChain.query
    sc_pc,          \* "off", "loop", "evaluate", "done"
    sc_max,         \* self.MAX_RETRIES
    sc_attempts,    \* attempts
    sc_query,       \* current_query
    sc_all_queries, \* all_queries
    sc_result,      \* result, the last retrieval
    sc_quality,     \* quality, a fraction <<numerator, denominator>>
    sc_events,      \* the retrievals and broadenings so far, in order
    sc_ret,         \* the CorrectionResult returned
    \* ParallelQueryProcessor.process_queries / process_queries_async
    pq_pc,          \* "off", "input", "done"
    pq_queries,     \* queries
    pq_failing,     \* the queries whose retrieval raises
    pq_async,       \* process_queries_async is the one called
    pq_out,         \* [raised, results]
    \* ParallelQueryProcessor.aggregate_results
    ag_pc,          \* "off", "input", "done"
    ag_results,     \* results
    ag_top_k,       \* top_k
    ag_dedup,       \* dedup
    ag_out,         \* the AggregatedResult returned
    \* QueryRewriter.rewrite
    rw_pc,          \* "off", "input", "done"
    rw_query,       \* query
    rw_response,    \* response.content, a sequence of tokens
    rw_out,         \* the RewriteResult returned, or the exception raised
    \* HybridSearcher.search
    hs_pc,          \* "off", "input", "done"
    hs_dense,       \* dense_results, what the store's query returned
    hs_doc_ids,     \* self._doc_ids, the ids index_documents was given
    hs_bm25_raw,    \* bm25_scores_raw, one score per indexed document
    hs_weights,     \* [dense, sparse], the weights in tenths
    hs_top_k,       \* top_k
    hs_out,         \* the list of HybridSearchResult returned
    \* Reranker.rerank
    rr_pc,          \* "off", "input", "done"
    rr_documents,   \* documents
    rr_scores,      \* what the model's predict returns for the pairs
    rr_top_k,       \* top_k
    rr_out,         \* the list of RankedDocument returned
    \* semantic_chunk
    ck_pc,          \* "off", "input", "done"
    ck_doc,         \* the body of text: [preamble, sections]
    ck_min_size,    \* min_size
    ck_max_size,    \* max_size
    ck_out,         \* the texts of the chunks returned
    \* the statements of one iteration of sync()'s loops 4a and 4b
    st_pc,          \* "none", "update", "overflow", "count"
    st_count,       \* chunk_count
    st_log,         \* what the cycle has done so far: [path, kind, op]
    \* _monitor_download_progress and a reader of the download state
    mn_pc,          \* "off", "test", "measure", "write", "wait", "ended"
    mn_stop,        \* stop_event is set
    mn_progress,    \* the progress the monitor computed
    mn_seen,        \* the ModelInfo a reader got last
    \* ParallelQueryProcessor.process_and_aggregate
    pa_pc,          \* "off", "input", "done"
    pa_queries,     \* queries
    pa_retrieved,   \* what the retriever returns for each query
    pa_top_k,       \* top_k
    pa_out          \* the AggregatedResult returned

sync_vars == <<tree, registry, saved, store, result, lastOp, wasStable, swallowed, edits>>
detect_vars == <<dc_pc, dc_current, dc_registry, dc_changes>>
upsert_vars == <<up_rp, up_chunks, up_ret, up_sameN, up_repeat>>
revert_vars == <<rv_pc, rv_path, rv_orig, rv_store0>>
cycle_vars == <<cy_pc, cy_todo, cy_skipped, cy_file, tg_root, tg_corrupt, tg_full>>
decide_vars == <<td_pc, td_stored, td_current, td_force, td_keys, td_exists, td_full>>
download_vars == <<dl_lock, dl_state, dl_pc, dl_found, dl_ret, dl_did>>
chain_vars == <<sc_pc, sc_max, sc_attempts, sc_query, sc_all_queries, sc_result,
                sc_quality, sc_events, sc_ret>>
fanout_vars == <<pq_pc, pq_queries, pq_failing, pq_async, pq_out>>
aggregate_vars == <<ag_pc, ag_results, ag_top_k, ag_dedup, ag_out>>
rewrite_vars == <<rw_pc, rw_query, rw_response, rw_out>>
hybrid_vars == <<hs_pc, hs_dense, hs_doc_ids, hs_bm25_raw, hs_weights, hs_top_k, hs_out>>
rerank_vars == <<rr_pc, rr_documents, rr_scores, rr_top_k, rr_out>>
chunk_vars == <<ck_pc, ck_doc, ck_min_size, ck_max_size, ck_out>>
order_vars == <<st_pc, st_count, st_log>>
monitor_vars == <<mn_pc, mn_stop, mn_progress, mn_seen>>
combine_vars == <<pa_pc, pa_queries, pa_retrieved, pa_top_k, pa_out>>
after_monitor_vars == <<combine_vars>>
after_order_vars == <<monitor_vars, after_monitor_vars>>
after_chunk_vars == <<order_vars, after_order_vars>>
after_rerank_vars == <<chunk_vars, after_chunk_vars>>
after_hybrid_vars == <<rerank_vars, after_rerank_vars>>
aux_vars == <<hybrid_vars, after_hybrid_vars>>
agentic_vars == <<chain_vars, fanout_vars, aggregate_vars, rewrite_vars>>
ext_vars == <<cycle_vars, decide_vars, download_vars, agentic_vars, aux_vars>>
vars == <<sync_vars, detect_vars, upsert_vars, revert_vars, ext_vars>>

\* ------------------------------------------------------------ ChromaStore

Restrict(f, S) == [x \in S |-> f[x]]

\* The collection is a set of rows [id, text, relative_path], one per id;
\* relative_path is the metadata field the store filters on.
EmptyStore == {}

Ids(st) == {row.id : row \in st}

generate_deterministic_id(relative_path, chunk_index) ==
    relative_path \o "::chunk_" \o ToString(chunk_index)

\* The Chunk objects of one file: text plus the metadata ScannedFile.to_metadata
\* contributes (only relative_path is read back by the store's methods).
FileChunks(content, relative_path) ==
    [i \in 1..Len(content) |->
        [text |-> content[i], relative_path |-> relative_path]]

\* Mutant: collection.add in place of upsert, an id already there is kept.
upsert_chunks_insert_only(st, chunks, relative_path) ==
    IF chunks = <<>>
    THEN [store |-> st, count |-> 0]
    ELSE LET rows == {[id |-> generate_deterministic_id(relative_path, idx),
                       text |-> chunks[idx + 1].text,
                       relative_path |-> chunks[idx + 1].relative_path] :
                            idx \in 0..(Len(chunks) - 1)}
         IN  [store |-> st \cup {row \in rows : row.id \notin Ids(st)},
              count |-> Len(chunks)]

\* collection.upsert: a row whose id is given is replaced, the others stay.
upsert_chunks(st, chunks, relative_path) ==
    IF chunks = <<>>
    THEN [store |-> st, count |-> 0]
    ELSE LET rows == {[id |-> generate_deterministic_id(relative_path, idx),
                       text |-> chunks[idx + 1].text,
                       relative_path |-> chunks[idx + 1].relative_path] :
                            idx \in 0..(Len(chunks) - 1)}
         IN  [store |-> {row \in st : row.id \notin Ids(rows)} \cup rows,
              count |-> Len(chunks)]

\* Mutant: the metadata filter matches no row.
delete_by_relative_path_no_match(st, relative_path) == st

delete_by_relative_path(st, relative_path) ==
    {row \in st : row.relative_path # relative_path}

delete_chunks_by_prefix(st, relative_path, from_index) ==
    LET ids_to_delete == {generate_deterministic_id(relative_path, i) :
                            i \in from_index..(from_index + PrefixDeleteSpan - 1)}
    IN  {row \in st : row.id \notin ids_to_delete}

\* Mutant: the collection is recreated without being deleted first.
clear_store_keeps_rows(st) == st

clear_store(st) == EmptyStore

\* ----------------------------------------------------------- SyncRegistry

EmptyFiles == Restrict(<<>>, {})

\* _load of a missing file.
EmptyRegistry == [files |-> EmptyFiles, vault_path |-> NoVault]

get_file_info(files, relative_path) ==
    IF relative_path \in DOMAIN files THEN {files[relative_path]} ELSE {}

\* Mutant: the entry is never written.
update_file_info_dropped(files, relative_path, content_hash, mtime, chunk_count) ==
    files

\* last_synced (a wall-clock stamp) is not modelled.
update_file_info(files, relative_path, content_hash, mtime, chunk_count) ==
    [p \in DOMAIN files \cup {relative_path} |->
        IF p = relative_path
        THEN [content_hash |-> content_hash, mtime |-> mtime, chunk_count |-> chunk_count]
        ELSE files[p]]

remove_file_info(files, relative_path) ==
    Restrict(files, DOMAIN files \ {relative_path})

set_vault_path(reg, vault_path) == [reg EXCEPT !.vault_path = vault_path]

clear(reg) == [files |-> EmptyFiles, vault_path |-> reg.vault_path]

\* ------------------------------------------------------------ FileTracker

\* MD5 of the file's bytes: distinct for distinct contents of the model.
compute_file_hash(content) == <<"md5", content>>

get_file_state(tr, relative_path) ==
    [relative_path |-> relative_path,
     mtime |-> tr[relative_path].mtime,
     content_hash |-> compute_file_hash(tr[relative_path].content)]

\* Mutant: the hashes are compared first, equal mtimes no longer short-circuit.
detect_changes_hash_only(current_files, registry_files) ==
    LET current_paths == {current_files[i].relative_path : i \in DOMAIN current_files}
        IsAdded(f) == f.relative_path \notin DOMAIN registry_files
        IsUnchanged(f) ==
            /\ f.relative_path \in DOMAIN registry_files
            /\ f.content_hash = registry_files[f.relative_path].content_hash
        IsModified(f) ==
            /\ f.relative_path \in DOMAIN registry_files
            /\ f.content_hash # registry_files[f.relative_path].content_hash
        unch == SelectSeq(current_files, IsUnchanged)
    IN  [added |-> SelectSeq(current_files, IsAdded),
         modified |-> SelectSeq(current_files, IsModified),
         deleted |-> DOMAIN registry_files \ current_paths,
         unchanged |-> [i \in DOMAIN unch |-> unch[i].relative_path]]

\* Mutant: a changed mtime alone makes a file modified, the hashes are not compared.
detect_changes_mtime_only(current_files, registry_files) ==
    LET current_paths == {current_files[i].relative_path : i \in DOMAIN current_files}
        IsAdded(f) == f.relative_path \notin DOMAIN registry_files
        IsUnchanged(f) ==
            /\ f.relative_path \in DOMAIN registry_files
            /\ f.mtime = registry_files[f.relative_path].mtime
        IsModified(f) ==
            /\ f.relative_path \in DOMAIN registry_files
            /\ f.mtime # registry_files[f.relative_path].mtime
        unch == SelectSeq(current_files, IsUnchanged)
    IN  [added |-> SelectSeq(current_files, IsAdded),
         modified |-> SelectSeq(current_files, IsModified),
         deleted |-> DOMAIN registry_files \ current_paths,
         unchanged |-> [i \in DOMAIN unch |-> unch[i].relative_path]]

\* deleted is list(set difference): a set here, its order is chosen by the caller.
detect_changes(current_files, registry_files) ==
    LET current_paths == {current_files[i].relative_path : i \in DOMAIN current_files}
        IsAdded(f) == f.relative_path \notin DOMAIN registry_files
        IsUnchanged(f) ==
            /\ f.relative_path \in DOMAIN registry_files
            /\ \/ f.mtime = registry_files[f.relative_path].mtime
               \/ f.content_hash = registry_files[f.relative_path].content_hash
        IsModified(f) ==
            /\ f.relative_path \in DOMAIN registry_files
            /\ f.mtime # registry_files[f.relative_path].mtime
            /\ f.content_hash # registry_files[f.relative_path].content_hash
        unch == SelectSeq(current_files, IsUnchanged)
    IN  [added |-> SelectSeq(current_files, IsAdded),
         modified |-> SelectSeq(current_files, IsModified),
         deleted |-> DOMAIN registry_files \ current_paths,
         unchanged |-> [i \in DOMAIN unch |-> unch[i].relative_path]]

\* ------------------------------------------------------- IncrementalSyncer

\* Where an operation on one file fails in a cycle: nowhere; get_file_state
\* (stat or hashing); read_text or semantic_chunk; the collection's upsert; the
\* collection's delete inside delete_chunks_by_prefix; the collection's delete
\* inside delete_by_relative_path; get_file_state and then that delete.
FailKinds == {"none", "state", "read", "upsert", "overflow", "delete", "state_delete"}

ZeroResult ==
    [added |-> 0, modified |-> 0, deleted |-> 0, skipped |-> 0,
     total_chunks |-> 0, errors |-> <<>>]

SyncError(stage, path, cause) == [stage |-> stage, path |-> path, cause |-> cause]

\* FolderScanner.scan: the files present, sorted.
scan(tr) ==
    LET Present(p) == p \in DOMAIN tr
    IN  SelectSeq(ScanOrder, Present)

\* sync step 2: the FileState of every scanned file; a failure is recorded.
RECURSIVE collect_states(_, _, _, _)
collect_states(scanned_files, tr, fail, acc) ==
    IF scanned_files = <<>>
    THEN acc
    ELSE LET p == Head(scanned_files)
             next == IF fail[p] \in {"state", "state_delete"}
                     THEN [acc EXCEPT !.errors = Append(@, SyncError("state", p, "state"))]
                     ELSE [acc EXCEPT !.states = Append(@, get_file_state(tr, p))]
         IN  collect_states(Tail(scanned_files), tr, fail, next)

\* Mutant: the registry entry is updated before the upsert is attempted.
process_file_registry_first(st, files, tr, file_state, fk) ==
    LET p == file_state.relative_path
        chunks == FileChunks(tr[p].content, p)
        early == update_file_info(files, p, file_state.content_hash,
                                  file_state.mtime, Len(chunks))
    IN  IF fk = "read"
        THEN [ok |-> FALSE, cause |-> "read", store |-> st, files |-> files,
              chunk_count |-> 0]
        ELSE IF fk = "upsert"
        THEN [ok |-> FALSE, cause |-> "upsert", store |-> st, files |-> early,
              chunk_count |-> 0]
        ELSE [ok |-> TRUE, cause |-> "none",
              store |-> upsert_chunks(st, chunks, p).store, files |-> early,
              chunk_count |-> Len(chunks)]

\* _process_file: read, chunk, upsert, then update the registry entry.  When a
\* step raises, store and files are as the steps before it left them.
process_file(st, files, tr, file_state, fk) ==
    LET p == file_state.relative_path
        failed(cause) ==
            [ok |-> FALSE, cause |-> cause, store |-> st, files |-> files, chunk_count |-> 0]
    IN  IF fk = "read"
        THEN failed("read")
        ELSE IF fk = "upsert"
        THEN failed("upsert")
        ELSE LET up == upsert_chunks(st, FileChunks(tr[p].content, p), p)
             IN  [ok |-> TRUE, cause |-> "none", store |-> up.store,
                  files |-> update_file_info(files, p, file_state.content_hash,
                                             file_state.mtime, up.count),
                  chunk_count |-> up.count]

\* One iteration of loop 4a.
add_file(file_state, tr, fail, acc) ==
    LET p == file_state.relative_path
        r == process_file(acc.store, acc.files, tr, file_state, fail[p])
    IN  IF r.ok
        THEN [acc EXCEPT !.store = r.store, !.files = r.files,
                         !.result.added = @ + 1,
                         !.result.total_chunks = @ + r.chunk_count]
        ELSE [acc EXCEPT !.store = r.store, !.files = r.files,
                         !.result.errors = Append(@, SyncError("add", p, r.cause))]

\* One iteration of loop 4b; old_info is read after _process_file has run.
modify_file(file_state, tr, fail, acc) ==
    LET p == file_state.relative_path
        r == process_file(acc.store, acc.files, tr, file_state, fail[p])
        old_info == get_file_info(r.files, p)
        overflow == \E info \in old_info : info.chunk_count > r.chunk_count
    IN  IF r.ok
        THEN [acc EXCEPT
                !.store = IF overflow /\ fail[p] # "overflow"
                          THEN delete_chunks_by_prefix(r.store, p, r.chunk_count)
                          ELSE r.store,
                !.swallowed = IF overflow /\ fail[p] = "overflow" THEN @ \cup {p} ELSE @,
                !.files = r.files,
                !.result.modified = @ + 1,
                !.result.total_chunks = @ + r.chunk_count]
        ELSE [acc EXCEPT !.store = r.store, !.files = r.files,
                         !.result.errors = Append(@, SyncError("modify", p, r.cause))]

\* One iteration of loop 4c.
delete_file(relative_path, tr, fail, acc) ==
    IF fail[relative_path] \in {"delete", "state_delete"}
    THEN [acc EXCEPT !.result.errors =
                        Append(@, SyncError("delete", relative_path, "delete"))]
    ELSE [acc EXCEPT !.store = delete_by_relative_path(@, relative_path),
                     !.files = remove_file_info(@, relative_path),
                     !.result.deleted = @ + 1]

\* Mutant: the first failure ends loop 4a.
RECURSIVE process_added_abort(_, _, _, _)
process_added_abort(added, tr, fail, acc) ==
    IF added = <<>> THEN acc
    ELSE LET next == add_file(Head(added), tr, fail, acc)
         IN  IF Len(next.result.errors) > Len(acc.result.errors)
             THEN next
             ELSE process_added_abort(Tail(added), tr, fail, next)

RECURSIVE process_added(_, _, _, _)
process_added(added, tr, fail, acc) ==
    IF added = <<>> THEN acc
    ELSE process_added(Tail(added), tr, fail, add_file(Head(added), tr, fail, acc))

RECURSIVE process_modified(_, _, _, _)
process_modified(modified, tr, fail, acc) ==
    IF modified = <<>> THEN acc
    ELSE process_modified(Tail(modified), tr, fail, modify_file(Head(modified), tr, fail, acc))

RECURSIVE process_deleted(_, _, _, _)
process_deleted(deleted, tr, fail, acc) ==
    IF deleted = <<>> THEN acc
    ELSE process_deleted(Tail(deleted), tr, fail, delete_file(Head(deleted), tr, fail, acc))

\* The orders list(set) can give the deleted paths.
Orders(S) ==
    {s \in [1..Cardinality(S) -> S] : \A i, j \in DOMAIN s : i # j => s[i] # s[j]}

\* sync(): the outcomes of one cycle for one failure pattern, one outcome per
\* order of the deleted list.  registry.save() is the caller's last step.
sync(tr, reg, st, fail) ==
    LET cs == collect_states(scan(tr), tr, fail, [states |-> <<>>, errors |-> <<>>])
        changes == detect_changes(cs.states, reg.files)
        acc0 == [store |-> st, files |-> reg.files, swallowed |-> {},
                 result |-> [ZeroResult EXCEPT !.errors = cs.errors]]
        acc1 == process_added(changes.added, tr, fail, acc0)
        acc2 == process_modified(changes.modified, tr, fail, acc1)
        finish(acc3) ==
            [store |-> acc3.store,
             registry |-> [reg EXCEPT !.files = acc3.files],
             swallowed |-> acc3.swallowed,
             result |-> [acc3.result EXCEPT !.skipped = Len(changes.unchanged)]]
    IN  {finish(process_deleted(deleted, tr, fail, acc2)) :
            deleted \in Orders(changes.deleted)}

\* full_sync(): registry.clear(), chroma_store.clear(), then sync().
full_sync(tr, reg, st, fail) ==
    sync(tr, clear(reg), clear_store(st), fail)

\* ----------------------------------------------------------------- actions

\* The last cycle ran to its end without errors and nothing was edited since.
Stable == lastOp \in {"sync", "full_sync", "set_vault_path"} /\ result.errors = <<>>

\* The failure patterns of one cycle: at most MaxFailures files fail, each in an
\* operation the cycle can run on it.
Applicable(tr, reg, p) ==
    IF p \in DOMAIN tr
    THEN {"none", "state", "read", "upsert", "overflow"}
            \cup (IF p \in DOMAIN reg.files THEN {"state_delete"} ELSE {})
    ELSE IF p \in DOMAIN reg.files THEN {"none", "delete"} ELSE {"none"}

FailPatterns(tr, reg) ==
    {fail \in [Paths -> FailKinds] :
        /\ \A p \in Paths : fail[p] \in Applicable(tr, reg, p)
        /\ Cardinality({p \in Paths : fail[p] # "none"}) <= MaxFailures}

\* The vault exists before the first cycle; its files carry mtime 0.
InitialTrees ==
    UNION {[S -> [content : Contents, mtime : {0}]] : S \in SUBSET Paths}

\* No call of detect_changes, no direct call of upsert_chunks, no round trip.
NoPath == ""
NoChanges == [added |-> <<>>, modified |-> <<>>, deleted |-> {}, unchanged |-> <<>>]
IdleDetect ==
    /\ dc_pc = "off" /\ dc_current = <<>> /\ dc_registry = EmptyFiles
    /\ dc_changes = NoChanges
IdleUpsert ==
    /\ up_rp = NoPath /\ up_chunks = <<>> /\ up_ret = 0
    /\ up_sameN = FALSE /\ up_repeat = FALSE
IdleRevert ==
    /\ rv_pc = "off" /\ rv_path = NoPath /\ rv_orig = <<>> /\ rv_store0 = {}
\* No cycle followed step by step, no trigger, no choice of trigger_sync.
IdleCycle ==
    /\ cy_pc = "off" /\ cy_todo = <<>> /\ cy_skipped = 0 /\ cy_file = <<>>
    /\ tg_root = NoVault /\ tg_corrupt = FALSE /\ tg_full = FALSE
IdleDecide ==
    /\ td_pc = "off" /\ td_stored = NoVault /\ td_current = NoVault
    /\ td_force = FALSE /\ td_keys = <<>> /\ td_exists = {} /\ td_full = FALSE
\* No call of download_model.
NoCall == 0
NoState == [status |-> "absent", progress |-> 0]
IdleDownload ==
    /\ dl_lock = NoCall /\ dl_state = NoState /\ dl_pc = <<>>
    /\ dl_found = <<>> /\ dl_ret = <<>> /\ dl_did = {}
\* No call of the agentic components.
NoResult == [query |-> "", chunks |-> <<>>]
IdleChain ==
    /\ sc_pc = "off" /\ sc_max = 0 /\ sc_attempts = 0 /\ sc_query = ""
    /\ sc_all_queries = <<>> /\ sc_result = NoResult /\ sc_quality = <<0, 1>>
    /\ sc_events = <<>> /\ sc_ret = <<>>
IdleFanout ==
    /\ pq_pc = "off" /\ pq_queries = <<>> /\ pq_failing = {} /\ pq_async = FALSE
    /\ pq_out = <<>>
IdleAggregate ==
    /\ ag_pc = "off" /\ ag_results = <<>> /\ ag_top_k = 0 /\ ag_dedup = FALSE
    /\ ag_out = <<>>
IdleRewrite ==
    /\ rw_pc = "off" /\ rw_query = <<>> /\ rw_response = <<>> /\ rw_out = <<>>
IdleHybrid ==
    /\ hs_pc = "off" /\ hs_dense = <<>> /\ hs_doc_ids = <<>> /\ hs_bm25_raw = <<>>
    /\ hs_weights = [dense |-> 0, sparse |-> 0] /\ hs_top_k = 0 /\ hs_out = <<>>
IdleRerank ==
    /\ rr_pc = "off" /\ rr_documents = <<>> /\ rr_scores = <<>> /\ rr_top_k = 0
    /\ rr_out = <<>>
IdleChunk ==
    /\ ck_pc = "off" /\ ck_doc = [preamble |-> <<>>, sections |-> <<>>]
    /\ ck_min_size = 0 /\ ck_max_size = 0 /\ ck_out = <<>>
IdleOrder == st_pc = "none" /\ st_count = 0 /\ st_log = <<>>
IdleMonitor ==
    /\ mn_pc = "off" /\ mn_stop = FALSE /\ mn_progress = 0 /\ mn_seen = <<>>
IdleCombine ==
    /\ pa_pc = "off" /\ pa_queries = <<>> /\ pa_retrieved = <<>> /\ pa_top_k = 0
    /\ pa_out = <<>>
IdleAfterMonitor == IdleCombine
IdleAfterOrder == IdleMonitor /\ IdleAfterMonitor
IdleAfterChunk == IdleOrder /\ IdleAfterOrder
IdleAfterRerank == IdleChunk /\ IdleAfterChunk
IdleAfterHybrid == IdleRerank /\ IdleAfterRerank
IdleAux == IdleHybrid /\ IdleAfterHybrid
IdleAgentic == IdleChain /\ IdleFanout /\ IdleAggregate /\ IdleRewrite
IdleExt == IdleCycle /\ IdleDecide /\ IdleDownload /\ IdleAgentic /\ IdleAux

Init ==
    /\ tree \in InitialTrees
    /\ registry = EmptyRegistry
    /\ saved = EmptyRegistry
    /\ store = EmptyStore
    /\ result = ZeroResult
    /\ lastOp = "init"
    /\ wasStable = FALSE
    /\ swallowed = {}
    /\ edits = 0
    /\ IdleDetect /\ IdleUpsert /\ IdleRevert /\ IdleExt

Edited ==
    /\ edits < MaxEdits
    /\ edits' = edits + 1
    /\ lastOp' = "edit"
    /\ result' = ZeroResult
    /\ wasStable' = FALSE
    /\ swallowed' = {}
    /\ UNCHANGED <<registry, saved, store, detect_vars, upsert_vars, revert_vars, ext_vars>>

\* The user creates, rewrites or touches a file; the write stamps it with the
\* time of the edit.
WriteFile ==
    \E p \in Paths, c \in Contents :
        /\ tree' = [q \in DOMAIN tree \cup {p} |->
                        IF q = p THEN [content |-> c, mtime |-> edits + 1] ELSE tree[q]]
        /\ Edited

\* The user removes a file.
RemoveFile ==
    \E p \in DOMAIN tree :
        /\ tree' = Restrict(tree, DOMAIN tree \ {p})
        /\ Edited

Sync ==
    \E fail \in FailPatterns(tree, registry) :
        \E r \in sync(tree, registry, store, fail) :
                /\ registry' = r.registry
                /\ saved' = r.registry
                /\ store' = r.store
                /\ result' = r.result
                /\ swallowed' = r.swallowed
                /\ lastOp' = "sync"
                /\ wasStable' = Stable
                /\ UNCHANGED <<tree, edits, detect_vars, upsert_vars, revert_vars, ext_vars>>

FullSync ==
    \E fail \in FailPatterns(tree, clear(registry)) :
        \E r \in full_sync(tree, registry, store, fail) :
                /\ registry' = r.registry
                /\ saved' = r.registry
                /\ store' = r.store
                /\ result' = r.result
                /\ swallowed' = r.swallowed
                /\ lastOp' = "full_sync"
                /\ wasStable' = Stable
                /\ UNCHANGED <<tree, edits, detect_vars, upsert_vars, revert_vars, ext_vars>>

\* trigger_sync's last two statements: record the vault root and save.
SetVaultPath ==
    \E v \in VaultPaths :
        /\ lastOp \in {"sync", "full_sync"}
        /\ registry.vault_path # v
        /\ registry' = set_vault_path(registry, v)
        /\ saved' = registry'
        /\ lastOp' = "set_vault_path"
        /\ UNCHANGED <<tree, store, result, wasStable, swallowed, edits>>
        /\ UNCHANGED <<detect_vars, upsert_vars, revert_vars, ext_vars>>

Next == WriteFile \/ RemoveFile \/ Sync \/ FullSync \/ SetVaultPath

Spec == Init /\ [][Next]_vars

\* ------------------------------------------------- detect_changes alone

\* Two file hashes are enough to tell equal from different.
DcHashes == {compute_file_hash(<<t>>) : t \in Texts}
DcStates == [relative_path : Paths, mtime : Mtimes, content_hash : DcHashes]
DcEntries == [content_hash : DcHashes, mtime : Mtimes, chunk_count : {1}]
DcRegistries == UNION {[S -> DcEntries] : S \in SUBSET Paths}
BoundedSeqs(S, n) == UNION {[1..k -> S] : k \in 0..n}

IdleSync ==
    /\ tree = Restrict(<<>>, {})
    /\ registry = EmptyRegistry
    /\ saved = EmptyRegistry
    /\ store = EmptyStore
    /\ result = ZeroResult
    /\ lastOp = "init"
    /\ wasStable = FALSE
    /\ swallowed = {}
    /\ edits = 0

InitDetect ==
    /\ dc_pc = "input"
    /\ dc_current \in BoundedSeqs(DcStates, MaxCurrent)
    /\ dc_registry \in DcRegistries
    /\ dc_changes = NoChanges
    /\ IdleSync /\ IdleUpsert /\ IdleRevert /\ IdleExt

Detect ==
    /\ dc_pc = "input"
    /\ dc_changes' = detect_changes(dc_current, dc_registry)
    /\ dc_pc' = "done"
    /\ UNCHANGED <<dc_current, dc_registry, sync_vars, upsert_vars, revert_vars, ext_vars>>

NextDetect == Detect

SpecDetect == InitDetect /\ [][NextDetect]_vars

\* -------------------------------------------------- upsert_chunks alone

\* The chunk lists a caller can pass, the empty list included.
ChunkLists == UNION {[1..n -> Texts] : n \in 0..MaxChunks}

InitUpsert ==
    /\ IdleSync /\ IdleDetect /\ IdleUpsert /\ IdleRevert /\ IdleExt

Upsert ==
    \E rp \in Paths, c \in ChunkLists :
        LET chunks == FileChunks(c, rp)
            r == upsert_chunks(store, chunks, rp)
        IN  /\ store' = r.store
            /\ up_ret' = r.count
            /\ up_rp' = rp
            /\ up_chunks' = chunks
            /\ up_sameN' = (up_rp = rp /\ Len(up_chunks) = Len(chunks))
            /\ up_repeat' = (up_rp = rp /\ up_chunks = chunks)
            /\ UNCHANGED <<tree, registry, saved, result, lastOp, wasStable,
                           swallowed, edits, detect_vars, revert_vars, ext_vars>>

NextUpsert == Upsert

SpecUpsert == InitUpsert /\ [][NextUpsert]_vars

\* ------------------------------------ modify, sync, revert, sync round trip

\* The vault has been synced once, without errors.
InitRevert ==
    /\ tree \in InitialTrees
    /\ tree # Restrict(<<>>, {})
    /\ \E r \in sync(tree, EmptyRegistry, EmptyStore, [p \in Paths |-> "none"]) :
            /\ registry = r.registry
            /\ saved = r.registry
            /\ store = r.store
            /\ result = r.result
            /\ swallowed = r.swallowed
            /\ rv_store0 = r.store
    /\ lastOp = "sync"
    /\ wasStable = FALSE
    /\ edits = 0
    /\ rv_pc = "synced" /\ rv_path = NoPath /\ rv_orig = <<>>
    /\ IdleDetect /\ IdleUpsert /\ IdleExt

RvWrite(p, c) ==
    /\ tree' = [tree EXCEPT ![p] = [content |-> c, mtime |-> edits + 1]]
    /\ edits' = edits + 1
    /\ lastOp' = "edit"
    /\ result' = ZeroResult
    /\ wasStable' = FALSE
    /\ swallowed' = {}
    /\ UNCHANGED <<registry, saved, store, rv_store0, detect_vars, upsert_vars, ext_vars>>

RvSync ==
    \E r \in sync(tree, registry, store, [p \in Paths |-> "none"]) :
        /\ registry' = r.registry
        /\ saved' = r.registry
        /\ store' = r.store
        /\ result' = r.result
        /\ swallowed' = r.swallowed
        /\ lastOp' = "sync"
        /\ wasStable' = Stable
        /\ UNCHANGED <<tree, edits, rv_path, rv_orig, rv_store0, detect_vars, upsert_vars,
                       ext_vars>>

\* The user rewrites one synced file.
RvModify ==
    /\ rv_pc = "synced"
    /\ \E p \in DOMAIN tree : \E c \in Contents \ {tree[p].content} :
            /\ RvWrite(p, c)
            /\ rv_path' = p
            /\ rv_orig' = tree[p].content
    /\ rv_pc' = "modified"

RvSyncModified == rv_pc = "modified" /\ rv_pc' = "resynced" /\ RvSync

\* The user restores the file's original content.
RvRevert ==
    /\ rv_pc = "resynced"
    /\ RvWrite(rv_path, rv_orig)
    /\ rv_pc' = "reverted"
    /\ UNCHANGED <<rv_path, rv_orig>>

RvSyncReverted == rv_pc = "reverted" /\ rv_pc' = "done" /\ RvSync

NextRevert == RvModify \/ RvSyncModified \/ RvRevert \/ RvSyncReverted

SpecRevert == InitRevert /\ [][NextRevert]_vars

TypeOK ==
    /\ DOMAIN tree \subseteq Paths
    /\ DOMAIN registry.files \subseteq Paths
    /\ saved = registry
    /\ edits \in Nat

\* ---------------------------------------------------------- claim helpers

\* The ids '<rp>::chunk_<k>' for k in lo..hi, written out.
ChunkIds(rp, lo, hi) == {rp \o "::chunk_" \o ToString(k) : k \in lo..hi}

\* No file of the model has a chunk index above this.
TopIndex == MaxChunks + 1

RowsOf(st, rp) == {row \in st : row.relative_path = rp}

\* The rows a file's current text stands for.
FileRows(tr, rp) ==
    {[id |-> rp \o "::chunk_" \o ToString(i - 1),
      text |-> tr[rp].content[i],
      relative_path |-> rp] : i \in 1..Len(tr[rp].content)}

\* The registry entry a file's current state stands for.
FileEntry(tr, rp) ==
    [content_hash |-> compute_file_hash(tr[rp].content),
     mtime |-> tr[rp].mtime,
     chunk_count |-> Len(tr[rp].content)]

\* The classification of the files when every file state can be read.
NoFail == [p \in Paths |-> "none"]
Changes(tr, reg) ==
    detect_changes(
        collect_states(scan(tr), tr, NoFail, [states |-> <<>>, errors |-> <<>>]).states,
        reg.files)
PathsOf(states) == {states[i].relative_path : i \in DOMAIN states}
AddedPaths(tr, reg) == PathsOf(Changes(tr, reg).added)
ModifiedPaths(tr, reg) == PathsOf(Changes(tr, reg).modified)
UnchangedPaths(tr, reg) ==
    {Changes(tr, reg).unchanged[i] : i \in DOMAIN Changes(tr, reg).unchanged}

\* The paths the cycle's result reports an error for.
Reported(res) == {res.errors[i].path : i \in DOMAIN res.errors}
ReportedCause(res, causes) ==
    {res.errors[i].path : i \in {j \in DOMAIN res.errors : res.errors[j].cause \in causes}}

\* ------------------------------------------------------------------ claims

\* C1: after a cycle that completed without errors, for every relative_path in
\* the registry the store holds exactly the ids rp::chunk_0 .. rp::chunk_{n-1},
\* n being the entry's chunk_count, and no id rp::chunk_k with k >= n.
C1_RegistryStoreCoherent ==
    (lastOp \in {"sync", "full_sync"} /\ result.errors = <<>>) =>
        \A rp \in DOMAIN registry.files :
            Ids(store) \cap ChunkIds(rp, 0, TopIndex) =
                ChunkIds(rp, 0, registry.files[rp].chunk_count - 1)

\* C2: when sync() processes a modified file whose new chunk count is smaller
\* than the chunk_count the registry recorded, afterwards the store holds no id
\* rp::chunk_k with k >= new_count and the entry's chunk_count is new_count.
C2_ShrinkStep ==
    \A rp \in Paths :
        ( /\ lastOp' = "sync"
          /\ rp \in ModifiedPaths(tree, registry)
          /\ Len(tree[rp].content) < registry.files[rp].chunk_count
          /\ rp \notin Reported(result') )
        => /\ Ids(store') \cap ChunkIds(rp, Len(tree[rp].content), TopIndex) = {}
           /\ rp \in DOMAIN registry'.files
           /\ registry'.files[rp].chunk_count = Len(tree[rp].content)
C2_ShrinkEvictsOverflow == [][C2_ShrinkStep]_vars

\* C3: a sync() that follows an error-free cycle on an unchanged tree, and itself
\* meets no error, returns added = modified = deleted = 0 and skipped = N, the
\* number of scanned files.
C3_SyncIdempotent ==
    (lastOp = "sync" /\ wasStable /\ result.errors = <<>>) =>
        /\ result.added = 0
        /\ result.modified = 0
        /\ result.deleted = 0
        /\ result.skipped = Len(scan(tree))
C3_Witness ==
    /\ lastOp = "sync" /\ wasStable /\ result.errors = <<>>
    /\ result.skipped = 2

\* C4: a file with a registry entry that was removed from the tree is, after a
\* sync() that meets no error on it, counted in deleted, has no row left in the
\* store (no id '<rp>::chunk_k', no row filed under rp) and no registry entry;
\* the rows and entries of the unchanged files stay as they were.
C4_DeleteStep ==
    \A rp \in Paths :
        ( /\ lastOp' = "sync"
          /\ rp \in DOMAIN registry.files
          /\ rp \notin DOMAIN tree
          /\ rp \notin Reported(result') )
        => /\ result'.deleted =
                Cardinality(DOMAIN registry.files \ DOMAIN registry'.files)
           /\ result'.deleted >= 1
           /\ Ids(store') \cap ChunkIds(rp, 0, TopIndex) = {}
           /\ RowsOf(store', rp) = {}
           /\ rp \notin DOMAIN registry'.files
           /\ \A q \in UnchangedPaths(tree, registry) \ Reported(result') :
                /\ RowsOf(store', q) = RowsOf(store, q)
                /\ get_file_info(registry'.files, q) = get_file_info(registry.files, q)
C4_DeletedFileEvicted == [][C4_DeleteStep]_vars
C4_Witness ==
    /\ lastOp = "sync" /\ result.deleted = 1 /\ result.errors = <<>>
    /\ result.skipped = 1
    /\ \E q \in DOMAIN registry.files : RowsOf(store, q) # {}
    /\ \E rp \in Paths : rp \notin DOMAIN tree /\ rp \notin DOMAIN registry.files

\* C6: a failure on one file is reported in result.errors and stops nothing:
\* every file the cycle reports no error for is processed (an added or modified
\* file has its rows and its entry, a removed file has neither), and the
\* registry is saved.
C6_CycleStep ==
    lastOp' = "sync" =>
        /\ saved' = registry'
        /\ \A q \in (AddedPaths(tree, registry) \cup ModifiedPaths(tree, registry))
                        \ Reported(result') :
                /\ FileRows(tree, q) \subseteq store'
                /\ get_file_info(registry'.files, q) = {FileEntry(tree, q)}
        /\ \A q \in (DOMAIN registry.files \ DOMAIN tree) \ Reported(result') :
                /\ RowsOf(store', q) = {}
                /\ q \notin DOMAIN registry'.files
        /\ result'.added + result'.modified =
                Cardinality((AddedPaths(tree, registry) \cup ModifiedPaths(tree, registry))
                                \ Reported(result'))
C6_ErrorsAreIsolated == [][C6_CycleStep]_vars
C6_Witness ==
    /\ lastOp = "sync"
    /\ Len(result.errors) = 1
    /\ result.errors[1].path = "a.md"
    /\ result.errors[1].stage = "add"
    /\ result.added = 1
    /\ "b.md" \in DOMAIN registry.files

\* C7: when a vector-store operation on a file fails in sync() (the upsert of
\* its chunks, the deletion of its overflow chunks, the delete by relative
\* path), the file's registry entry stays as it was before the cycle, so the
\* next cycle classifies the file the same way again.
C7_StoreFailureStep ==
    \A rp \in ReportedCause(result', {"upsert", "delete"}) \cup swallowed' :
        lastOp' = "sync" =>
            /\ get_file_info(registry'.files, rp) = get_file_info(registry.files, rp)
            /\ (rp \in AddedPaths(tree, registry')) = (rp \in AddedPaths(tree, registry))
            /\ (rp \in ModifiedPaths(tree, registry')) = (rp \in ModifiedPaths(tree, registry))
            /\ (rp \in DOMAIN registry'.files \ DOMAIN tree)
                    = (rp \in DOMAIN registry.files \ DOMAIN tree)
C7_StoreFailureKeepsEntry == [][C7_StoreFailureStep]_vars
C7_Witness ==
    /\ lastOp = "sync"
    /\ \E rp \in ReportedCause(result, {"upsert"}) :
            /\ rp \in ModifiedPaths(tree, registry)
            /\ registry.files[rp].chunk_count # Len(tree[rp].content)

\* C9: full_sync() keeps the registry's vault_path, and leaves the store and the
\* registry's file entries as a sync() from an empty registry and an empty store
\* leaves them: the rows and the entry of every file it reports no error for,
\* and nothing else; without errors, added is the number of scanned files.
C9_FullSyncStep ==
    lastOp' = "full_sync" =>
        LET done == DOMAIN tree \ Reported(result')
        IN  /\ registry'.vault_path = registry.vault_path
            /\ store' = UNION {FileRows(tree, rp) : rp \in done}
            /\ DOMAIN registry'.files = done
            /\ \A rp \in done : registry'.files[rp] = FileEntry(tree, rp)
            /\ result'.added = Cardinality(done)
            /\ result'.errors = <<>> => result'.added = Len(scan(tree))
            /\ result'.modified = 0 /\ result'.deleted = 0 /\ result'.skipped = 0
C9_FullSyncIsFreshSync == [][C9_FullSyncStep]_vars
C9_Witness ==
    /\ lastOp = "full_sync" /\ wasStable
    /\ registry.vault_path = "/vault"
    /\ result.added = 2 /\ result.errors = <<>>
    /\ store # {}

\* C5: detect_changes puts every current file in exactly one of added, modified
\* and unchanged (their sizes sum to the number of current files), deleted is
\* the set of registry keys absent from the current files, and the rule is:
\* not in the registry -> added; mtime equal -> unchanged whatever the hashes;
\* else hash equal -> unchanged; else modified.
C5_Rule(f) ==
    IF f.relative_path \notin DOMAIN dc_registry THEN "added"
    ELSE IF f.mtime = dc_registry[f.relative_path].mtime THEN "unchanged"
    ELSE IF f.content_hash = dc_registry[f.relative_path].content_hash THEN "unchanged"
    ELSE "modified"
C5_Indices(class) == {i \in DOMAIN dc_current : C5_Rule(dc_current[i]) = class}
C5_Classification ==
    dc_pc = "done" =>
        /\ Len(dc_changes.added) + Len(dc_changes.modified) + Len(dc_changes.unchanged)
                = Len(dc_current)
        /\ Len(dc_changes.added) = Cardinality(C5_Indices("added"))
        /\ Len(dc_changes.modified) = Cardinality(C5_Indices("modified"))
        /\ Len(dc_changes.unchanged) = Cardinality(C5_Indices("unchanged"))
        /\ \A i \in DOMAIN dc_changes.added : C5_Rule(dc_changes.added[i]) = "added"
        /\ \A i \in DOMAIN dc_changes.modified :
                C5_Rule(dc_changes.modified[i]) = "modified"
        /\ \A i \in C5_Indices("added") :
                \E j \in DOMAIN dc_changes.added : dc_changes.added[j] = dc_current[i]
        /\ \A i \in C5_Indices("modified") :
                \E j \in DOMAIN dc_changes.modified : dc_changes.modified[j] = dc_current[i]
        /\ \A i \in C5_Indices("unchanged") :
                \E j \in DOMAIN dc_changes.unchanged :
                    dc_changes.unchanged[j] = dc_current[i].relative_path
        /\ dc_changes.deleted =
                {rp \in DOMAIN dc_registry :
                    \A i \in DOMAIN dc_current : dc_current[i].relative_path # rp}
C5_Witness ==
    /\ dc_pc = "done"
    /\ Len(dc_current) = 2
    /\ Len(dc_changes.modified) = 1
    /\ Len(dc_changes.unchanged) = 1
    /\ \E i \in DOMAIN dc_current :
            /\ dc_current[i].relative_path \in DOMAIN dc_registry
            /\ dc_current[i].mtime = dc_registry[dc_current[i].relative_path].mtime
            /\ dc_current[i].content_hash
                    # dc_registry[dc_current[i].relative_path].content_hash

\* C8: modify a synced file, sync, restore its original content, sync: the
\* store's rows (ids and texts) are the rows before the modification.
C8_RoundTrip == rv_pc = "done" => store = rv_store0

\* C10: upsert_chunks(chunks, rp) gives the i-th chunk the id '<rp>::chunk_<i>',
\* i = 0..n-1, and returns n; it leaves every other row alone; a call with the
\* path and chunk count of the call before adds no id, and a call with the path
\* and chunks of the call before leaves the rows unchanged.
C10_UpsertStep ==
    LET n == Len(up_chunks')
        written == ChunkIds(up_rp', 0, n - 1)
    IN  /\ up_ret' = n
        /\ \A i \in 0..(n - 1) :
                [id |-> up_rp' \o "::chunk_" \o ToString(i),
                 text |-> up_chunks'[i + 1].text,
                 relative_path |-> up_chunks'[i + 1].relative_path] \in store'
        /\ Cardinality(Ids(store')) = Cardinality(store')
        /\ {row \in store' : row.id \notin written} = {row \in store : row.id \notin written}
        /\ up_sameN' => Ids(store') = Ids(store)
        /\ up_repeat' => store' = store
C10_UpsertIds == [][C10_UpsertStep]_vars
C10_Witness ==
    /\ up_sameN /\ ~up_repeat /\ up_ret = 2
    /\ Cardinality(store) >= 3


\* ------------------------- SyncRegistry's file, and one cycle step by step

\* json.dump writes the document piece by piece: the opening brace, the
\* vault_path member, one member per file, the closing brace.
OpenBrace == [brace |-> "{"]
CloseBrace == [brace |-> "}"]
dump(reg) ==
    LET keys == SelectSeq(ScanOrder, LAMBDA p : p \in DOMAIN reg.files)
    IN  <<OpenBrace, [vault_path |-> reg.vault_path]>>
            \o [i \in DOMAIN keys |-> [path |-> keys[i], info |-> reg.files[keys[i]]]]
            \o <<CloseBrace>>

\* json.load: the registry of a complete document, nothing (JSONDecodeError)
\* for any other content.
loads(doc) ==
    IF /\ Len(doc) >= 3
       /\ doc[1] = OpenBrace
       /\ doc[Len(doc)] = CloseBrace
    THEN LET members == SubSeq(doc, 3, Len(doc) - 1)
             keys == {members[i].path : i \in DOMAIN members}
             info(p) == (CHOOSE i \in DOMAIN members : members[i].path = p)
         IN  {[files |-> [p \in keys |-> members[info(p)].info],
               vault_path |-> doc[2].vault_path]}
    ELSE {}

\* SyncRegistry._load: a missing file or one that does not parse gives the
\* default registry.
_load(doc) ==
    IF loads(doc) = {} THEN EmptyRegistry ELSE CHOOSE reg \in loads(doc) : TRUE

NoFailure == [p \in Paths |-> "none"]

\* The loops 4a, 4b, 4c of sync() as one list of per-file steps.
CycleSteps(changes, deleted) ==
    [i \in DOMAIN changes.added |-> [kind |-> "add", file_state |-> changes.added[i]]]
        \o [i \in DOMAIN changes.modified |->
                [kind |-> "modify", file_state |-> changes.modified[i]]]
        \o [i \in DOMAIN deleted |->
                [kind |-> "delete", file_state |-> [relative_path |-> deleted[i]]]]

\* The vault has been synced once and the registry file is complete.
InitCycle ==
    /\ tree \in InitialTrees
    /\ \E r \in sync(tree, EmptyRegistry, EmptyStore, NoFailure) :
            /\ registry = r.registry
            /\ saved = r.registry
            /\ cy_file = dump(r.registry)
            /\ store = r.store
            /\ result = r.result
            /\ swallowed = r.swallowed
    /\ lastOp = "sync"
    /\ wasStable = FALSE
    /\ edits = 0
    /\ cy_pc = "idle" /\ cy_todo = <<>> /\ cy_skipped = 0
    /\ tg_root = NoVault /\ tg_corrupt = FALSE /\ tg_full = FALSE
    /\ IdleDetect /\ IdleUpsert /\ IdleRevert
    /\ IdleDecide /\ IdleDownload /\ IdleAgentic /\ IdleAux

CyEdit ==
    /\ cy_pc = "idle"
    /\ WriteFile \/ RemoveFile

\* sync() steps 1 to 3: scan, collect the states, detect the changes.
CyStart ==
    /\ cy_pc = "idle"
    /\ LET cs == collect_states(scan(tree), tree, NoFailure,
                                [states |-> <<>>, errors |-> <<>>])
           changes == detect_changes(cs.states, registry.files)
       IN  /\ \E deleted \in Orders(changes.deleted) :
                    cy_todo' = CycleSteps(changes, deleted)
           /\ cy_skipped' = Len(changes.unchanged)
    /\ result' = ZeroResult
    /\ swallowed' = {}
    /\ cy_pc' = "files"
    /\ lastOp' = "cycle"
    /\ wasStable' = FALSE
    /\ UNCHANGED <<tree, registry, saved, store, edits, cy_file, tg_root, tg_corrupt, tg_full>>
    /\ UNCHANGED <<detect_vars, upsert_vars, revert_vars, decide_vars, download_vars,
                   agentic_vars, aux_vars>>

\* One iteration of loop 4a, 4b or 4c.
CyStep ==
    /\ cy_pc = "files"
    /\ cy_todo # <<>>
    /\ LET step == Head(cy_todo)
           acc == [store |-> store, files |-> registry.files,
                   swallowed |-> swallowed, result |-> result]
           next == IF step.kind = "add"
                   THEN add_file(step.file_state, tree, NoFailure, acc)
                   ELSE IF step.kind = "modify"
                   THEN modify_file(step.file_state, tree, NoFailure, acc)
                   ELSE delete_file(step.file_state.relative_path, tree, NoFailure, acc)
       IN  /\ store' = next.store
           /\ registry' = [registry EXCEPT !.files = next.files]
           /\ swallowed' = next.swallowed
           /\ result' = next.result
    /\ cy_todo' = Tail(cy_todo)
    /\ UNCHANGED <<tree, saved, lastOp, wasStable, edits, cy_pc, cy_skipped, cy_file,
                   tg_root, tg_corrupt, tg_full>>
    /\ UNCHANGED <<detect_vars, upsert_vars, revert_vars, decide_vars, download_vars,
                   agentic_vars, aux_vars>>

\* Step 4d, then registry.save() opens the file for writing, which empties it.
CySaveOpen ==
    /\ cy_pc = "files"
    /\ cy_todo = <<>>
    /\ result' = [result EXCEPT !.skipped = cy_skipped]
    /\ cy_file' = <<>>
    /\ cy_pc' = "writing"
    /\ UNCHANGED <<tree, registry, saved, store, lastOp, wasStable, swallowed, edits,
                   cy_todo, cy_skipped, tg_root, tg_corrupt, tg_full>>
    /\ UNCHANGED <<detect_vars, upsert_vars, revert_vars, decide_vars, download_vars,
                   agentic_vars, aux_vars>>

\* json.dump writes the next piece of the document.
CySaveWrite ==
    /\ cy_pc = "writing"
    /\ Len(cy_file) < Len(dump(registry))
    /\ cy_file' = Append(cy_file, dump(registry)[Len(cy_file) + 1])
    /\ UNCHANGED <<sync_vars, cy_pc, cy_todo, cy_skipped, tg_root, tg_corrupt, tg_full>>
    /\ UNCHANGED <<detect_vars, upsert_vars, revert_vars, decide_vars, download_vars,
                   agentic_vars, aux_vars>>

\* The file is closed and sync() returns.
CySaveClose ==
    /\ cy_pc = "writing"
    /\ cy_file = dump(registry)
    /\ saved' = registry
    /\ cy_pc' = "idle"
    /\ lastOp' = "sync"
    /\ UNCHANGED <<tree, registry, store, result, wasStable, swallowed, edits,
                   cy_todo, cy_skipped, cy_file, tg_root, tg_corrupt, tg_full>>
    /\ UNCHANGED <<detect_vars, upsert_vars, revert_vars, decide_vars, download_vars,
                   agentic_vars, aux_vars>>

\* The cycle is cancelled or the process stops.
CyStop ==
    /\ cy_pc \in {"files", "writing"}
    /\ cy_pc' = "stopped"
    /\ cy_todo' = <<>>
    /\ UNCHANGED <<sync_vars, cy_skipped, cy_file, tg_root, tg_corrupt, tg_full>>
    /\ UNCHANGED <<detect_vars, upsert_vars, revert_vars, decide_vars, download_vars,
                   agentic_vars, aux_vars>>

\* A new process builds its SyncRegistry from the file.
CyRestart ==
    /\ cy_pc = "stopped"
    /\ registry' = _load(cy_file)
    /\ result' = ZeroResult
    /\ swallowed' = {}
    /\ cy_skipped' = 0
    /\ cy_pc' = "idle"
    /\ lastOp' = "init"
    /\ UNCHANGED <<tree, saved, store, wasStable, edits, cy_todo, cy_file,
                   tg_root, tg_corrupt, tg_full>>
    /\ UNCHANGED <<detect_vars, upsert_vars, revert_vars, decide_vars, download_vars,
                   agentic_vars, aux_vars>>

NextCycle ==
    CyEdit \/ CyStart \/ CyStep \/ CySaveOpen \/ CySaveWrite \/ CySaveClose
        \/ CyStop \/ CyRestart

SpecCycle == InitCycle /\ [][NextCycle]_vars

\* The registry reg and the store st agree: every registered path has exactly
\* chunk_count rows, and every row belongs to a registered path.
Consistent(reg, st) ==
    /\ \A p \in DOMAIN reg.files :
            Cardinality({row \in st : row.relative_path = p}) = reg.files[p].chunk_count
    /\ \A row \in st : row.relative_path \in DOMAIN reg.files

\* C11: wherever a cycle can be cancelled after a per-file step, the registry
\* as persisted on disk and the store are consistent with each other: every
\* persisted path has exactly chunk_count rows, and the store has rows for no
\* path the persisted registry lacks.
C11_CancelledCycleConsistent ==
    cy_pc = "files" => Consistent(_load(cy_file), store)

\* C12: at every point during a save, the registry file holds the complete
\* previous document or the complete new one.
C12_SaveAtomic ==
    cy_pc \in {"writing", "stopped"} => cy_file \in {dump(saved), dump(registry)}


\* ------------------------------------------------------------ trigger_sync

\* The integrity check looks at this many registry keys.
SampleSize == 5

\* vault_changed: a vault path is stored and it is not the current root.
vault_changed(stored_vault, current_vault) ==
    stored_vault # NoVault /\ stored_vault # current_vault

\* Mutant: every registry key is checked, not a sample.
sample_keys_all(keys) == keys

\* sample_keys = list(registry.files.keys())[:5]
sample_keys(keys) ==
    SubSeq(keys, 1, IF Len(keys) < SampleSize THEN Len(keys) ELSE SampleSize)

\* paths_corrupted: checked only when the vault did not change and the registry
\* has files; true when none of the sampled keys exists under the root.
paths_corrupted(stored_vault, current_vault, keys, exists) ==
    /\ ~vault_changed(stored_vault, current_vault)
    /\ Len(keys) > 0
    /\ LET sample == sample_keys(keys)
           valid_count == Cardinality({i \in DOMAIN sample : sample[i] \in exists})
       IN  valid_count = 0

\* trigger_sync runs full_sync() when this holds, sync() otherwise.
runs_full_sync(stored_vault, current_vault, force_reindex, keys, exists) ==
    \/ vault_changed(stored_vault, current_vault)
    \/ force_reindex
    \/ paths_corrupted(stored_vault, current_vault, keys, exists)

\* The roots the settings can name: the vault, and the vault after a move.
TgRoots == {"/vault", "/moved"}

\* list(registry.files.keys()): the order of the document.
registry_keys(files) == SelectSeq(ScanOrder, LAMBDA p : p \in DOMAIN files)

\* A vault that was never synced: no registry file, an empty store.
InitTrigger ==
    /\ tree \in InitialTrees
    /\ registry = EmptyRegistry
    /\ saved = EmptyRegistry
    /\ store = EmptyStore
    /\ result = ZeroResult
    /\ lastOp = "init"
    /\ wasStable = FALSE
    /\ swallowed = {}
    /\ edits = 0
    /\ cy_pc = "off" /\ cy_todo = <<>> /\ cy_skipped = 0 /\ cy_file = <<>>
    /\ tg_root = "/vault" /\ tg_corrupt = FALSE /\ tg_full = FALSE
    /\ IdleDetect /\ IdleUpsert /\ IdleRevert
    /\ IdleDecide /\ IdleDownload /\ IdleAgentic /\ IdleAux

TgEdit == WriteFile \/ RemoveFile

\* The vault folder is moved and the settings name its new root.
TgMoveVault ==
    \E root \in TgRoots \ {tg_root} :
        /\ lastOp = "trigger"
        /\ tg_root' = root
        /\ lastOp' = "move"
        /\ UNCHANGED <<tree, registry, saved, store, result, wasStable, swallowed, edits>>
        /\ UNCHANGED <<cy_pc, cy_todo, cy_skipped, cy_file, tg_corrupt, tg_full>>
        /\ UNCHANGED <<detect_vars, upsert_vars, revert_vars, decide_vars, download_vars,
                       agentic_vars, aux_vars>>

\* The registry file is damaged: only a part of the document is left.
TgCorrupt ==
    \E n \in 1..(Len(cy_file) - 1) :
        /\ lastOp = "trigger"
        /\ cy_file' = SubSeq(cy_file, 1, n)
        /\ lastOp' = "corrupt"
        /\ UNCHANGED <<tree, registry, saved, store, result, wasStable, swallowed, edits>>
        /\ UNCHANGED <<cy_pc, cy_todo, cy_skipped, tg_root, tg_corrupt, tg_full>>
        /\ UNCHANGED <<detect_vars, upsert_vars, revert_vars, decide_vars, download_vars,
                       agentic_vars, aux_vars>>

\* trigger_sync for the whole vault: a syncer is built on the registry file,
\* runs full_sync() or sync(), then the root is recorded and the registry saved.
trigger_sync(tr, doc, st, root, force_reindex) ==
    LET reg == _load(doc)
        full == runs_full_sync(reg.vault_path, root, force_reindex,
                               registry_keys(reg.files), DOMAIN tr)
        outcomes == IF full THEN full_sync(tr, reg, st, NoFailure)
                    ELSE sync(tr, reg, st, NoFailure)
    IN  {[store |-> r.store,
          registry |-> set_vault_path(r.registry, root),
          swallowed |-> r.swallowed,
          result |-> r.result,
          full |-> full] : r \in outcomes}

TgTrigger ==
    \E force_reindex \in BOOLEAN :
        \E r \in trigger_sync(tree, cy_file, store, tg_root, force_reindex) :
            /\ registry' = r.registry
            /\ saved' = r.registry
            /\ cy_file' = dump(r.registry)
            /\ store' = r.store
            /\ result' = r.result
            /\ swallowed' = r.swallowed
            /\ tg_full' = r.full
            /\ tg_corrupt' = (cy_file # <<>> /\ loads(cy_file) = {})
            /\ lastOp' = "trigger"
            /\ wasStable' = FALSE
            /\ UNCHANGED <<tree, edits, cy_pc, cy_todo, cy_skipped, tg_root>>
            /\ UNCHANGED <<detect_vars, upsert_vars, revert_vars, decide_vars,
                           download_vars, agentic_vars, aux_vars>>

NextTrigger == TgEdit \/ TgMoveVault \/ TgCorrupt \/ TgTrigger

SpecTrigger == InitTrigger /\ [][NextTrigger]_vars

\* C13: a trigger that finds a registry file it cannot parse performs a full
\* resync: the store is cleared and every file re-indexed, so the store holds
\* rows only for files that exist in the vault.
C13_CorruptRegistryFullResync ==
    (lastOp = "trigger" /\ tg_corrupt) =>
        /\ tg_full
        /\ \A row \in store : row.relative_path \in DOMAIN tree


\* ------------------------------------- trigger_sync's choice, on its own

\* Longest registry given to the choice: one key more than the sample.
MaxKeys == 6

\* Registry keys in document order.
TdKeys(n) == [i \in 1..n |-> "k" \o ToString(i)]
TdStored == {NoVault} \cup TgRoots

InitDecide ==
    /\ td_pc = "input"
    /\ td_stored \in TdStored
    /\ td_current \in TgRoots
    /\ td_force \in BOOLEAN
    /\ \E n \in 0..MaxKeys :
            /\ td_keys = TdKeys(n)
            /\ td_exists \in SUBSET {td_keys[i] : i \in 1..n}
    /\ td_full = FALSE
    /\ IdleSync /\ IdleDetect /\ IdleUpsert /\ IdleRevert
    /\ IdleCycle /\ IdleDownload /\ IdleAgentic /\ IdleAux

Decide ==
    /\ td_pc = "input"
    /\ td_full' = runs_full_sync(td_stored, td_current, td_force, td_keys, td_exists)
    /\ td_pc' = "done"
    /\ UNCHANGED <<td_stored, td_current, td_force, td_keys, td_exists>>
    /\ UNCHANGED <<sync_vars, detect_vars, upsert_vars, revert_vars, cycle_vars,
                   download_vars, agentic_vars, aux_vars>>

NextDecide == Decide

SpecDecide == InitDecide /\ [][NextDecide]_vars

\* C14: trigger_sync runs full_sync() whenever a vault path is stored and it
\* differs from the current root, or the sampled registry paths (the first
\* SampleSize keys at most) all fail to exist under the current root.
C14_StoredDiffers == td_stored # NoVault /\ td_stored # td_current
C14_SampleMissing ==
    /\ td_keys # <<>>
    /\ \A i \in DOMAIN td_keys : i <= SampleSize => td_keys[i] \notin td_exists
C15_Touched(rp) ==
    /\ rp \in DOMAIN tree
    /\ rp \in DOMAIN registry.files
    /\ tree[rp].mtime # registry.files[rp].mtime
    /\ compute_file_hash(tree[rp].content) = registry.files[rp].content_hash
C15_TouchStep ==
    \A rp \in Paths :
        (lastOp' = "sync" /\ C15_Touched(rp) /\ rp \notin Reported(result'))
        => /\ result'.skipped >= 1
           /\ result'.skipped =
                Cardinality({q \in DOMAIN tree \cap DOMAIN registry.files :
                    /\ q \notin Reported(result')
                    /\ \/ tree[q].mtime = registry.files[q].mtime
                       \/ compute_file_hash(tree[q].content)
                            = registry.files[q].content_hash})
           /\ {row \in store' : row.relative_path = rp}
                = {row \in store : row.relative_path = rp}
           /\ rp \in DOMAIN registry'.files
           /\ registry'.files[rp] = registry.files[rp]
           /\ registry'.files[rp].mtime # tree[rp].mtime
C15_TouchedFileSkipped == [][C15_TouchStep]_vars
C15_Witness ==
    /\ lastOp = "sync"
    /\ result.errors = <<>>
    /\ result.skipped = 1 /\ result.added = 0 /\ result.modified = 0
    /\ \E rp \in Paths : C15_Touched(rp) /\ RowsOf(store, rp) # {}


\* ------------------------------------------- concurrent download_model calls

\* Number of concurrent calls of download_model for the one model.
MaxCalls == 2
DlCalls == 1..MaxCalls

\* What the monitor thread can write into progress: min(round(raw * 90), 90).
DlMonitorProgress == {0, 45, 90}

\* Positions of a call between marking the model as downloading and writing
\* READY or ERROR: the call is performing the download.
DownloadPhases == {"download", "downloaded", "load", "loaded", "finish", "failed"}

\* Mutant: the lock never blocks.
can_acquire_always(holder) == TRUE

\* threading.Lock: free when no call holds it.
can_acquire(holder) == holder = NoCall

NoInfo == [status |-> "none", progress |-> 0]

\* _download_states holds nothing for the model, or what an earlier download left.
InitDownload ==
    /\ dl_lock = NoCall
    /\ dl_state \in {NoState, [status |-> "ready", progress |-> 100],
                     [status |-> "error", progress |-> 0]}
    /\ dl_pc = [c \in DlCalls |-> "start"]
    /\ dl_found = [c \in DlCalls |-> "none"]
    /\ dl_ret = [c \in DlCalls |-> NoInfo]
    /\ dl_did = {}
    /\ IdleSync /\ IdleDetect /\ IdleUpsert /\ IdleRevert
    /\ IdleCycle /\ IdleDecide /\ IdleAgentic /\ IdleAux

DlOthersUnchanged ==
    UNCHANGED <<sync_vars, detect_vars, upsert_vars, revert_vars, cycle_vars,
                decide_vars, agentic_vars, aux_vars>>

\* with _download_lock:
DlAcquire(c) ==
    /\ dl_pc[c] = "start"
    /\ can_acquire(dl_lock)
    /\ dl_lock' = c
    /\ dl_pc' = [dl_pc EXCEPT ![c] = "check"]
    /\ UNCHANGED <<dl_state, dl_found, dl_ret, dl_did>>
    /\ DlOthersUnchanged

\* The test of the state under the lock; a model found downloading makes the
\* call return its progress, which leaves the with block.
DlCheck(c) ==
    /\ dl_pc[c] = "check"
    /\ dl_found' = [dl_found EXCEPT ![c] = dl_state.status]
    /\ IF dl_state.status = "downloading"
       THEN /\ dl_ret' = [dl_ret EXCEPT ![c] = [status |-> "downloading",
                                                 progress |-> dl_state.progress]]
            /\ dl_pc' = [dl_pc EXCEPT ![c] = "returned"]
            /\ dl_lock' = NoCall
       ELSE /\ dl_pc' = [dl_pc EXCEPT ![c] = "mark"]
            /\ UNCHANGED <<dl_ret, dl_lock>>
    /\ UNCHANGED <<dl_state, dl_did>>
    /\ DlOthersUnchanged

\* _download_states[model_id] = DownloadProgress(...), the end of the with block.
DlMark(c) ==
    /\ dl_pc[c] = "mark"
    /\ dl_state' = [status |-> "downloading", progress |-> 0]
    /\ dl_lock' = NoCall
    /\ dl_pc' = [dl_pc EXCEPT ![c] = "download"]
    /\ UNCHANGED <<dl_found, dl_ret, dl_did>>
    /\ DlOthersUnchanged

\* _monitor_download_progress writes the progress under the lock.
DlMonitor(c) ==
    /\ dl_pc[c] = "download"
    /\ c \in dl_did
    /\ can_acquire(dl_lock)
    /\ dl_state.status # "absent"
    /\ \E progress \in DlMonitorProgress \ {dl_state.progress} :
            dl_state' = [dl_state EXCEPT !.progress = progress]
    /\ UNCHANGED <<dl_lock, dl_pc, dl_found, dl_ret, dl_did>>
    /\ DlOthersUnchanged

\* snapshot_download(model_id) is called.
DlSnapshotStart(c) ==
    /\ dl_pc[c] = "download"
    /\ c \notin dl_did
    /\ dl_did' = dl_did \cup {c}
    /\ UNCHANGED <<dl_lock, dl_state, dl_pc, dl_found, dl_ret>>
    /\ DlOthersUnchanged

\* snapshot_download returns or raises.
DlSnapshotEnd(c) ==
    /\ dl_pc[c] = "download"
    /\ c \in dl_did
    /\ \E pc \in {"downloaded", "failed"} : dl_pc' = [dl_pc EXCEPT ![c] = pc]
    /\ UNCHANGED <<dl_lock, dl_state, dl_found, dl_ret, dl_did>>
    /\ DlOthersUnchanged

\* update_progress(p): under the lock, an existing state gets the progress.
DlUpdateProgress(c, from, to, progress) ==
    /\ dl_pc[c] = from
    /\ can_acquire(dl_lock)
    /\ dl_state' = IF dl_state.status # "absent"
                   THEN [dl_state EXCEPT !.progress = progress]
                   ELSE dl_state
    /\ dl_pc' = [dl_pc EXCEPT ![c] = to]
    /\ UNCHANGED <<dl_lock, dl_found, dl_ret, dl_did>>
    /\ DlOthersUnchanged

DlProgress90(c) == DlUpdateProgress(c, "downloaded", "load", 90)

\* SentenceTransformer(model_id) returns or raises.
DlLoad(c) ==
    /\ dl_pc[c] = "load"
    /\ \E pc \in {"loaded", "failed"} : dl_pc' = [dl_pc EXCEPT ![c] = pc]
    /\ UNCHANGED <<dl_lock, dl_state, dl_found, dl_ret, dl_did>>
    /\ DlOthersUnchanged

DlProgress100(c) == DlUpdateProgress(c, "loaded", "finish", 100)

\* The state becomes READY and the call returns READY.
DlReady(c) ==
    /\ dl_pc[c] = "finish"
    /\ can_acquire(dl_lock)
    /\ dl_state' = IF dl_state.status # "absent"
                   THEN [status |-> "ready", progress |-> 100]
                   ELSE dl_state
    /\ dl_ret' = [dl_ret EXCEPT ![c] = [status |-> "ready", progress |-> 100]]
    /\ dl_pc' = [dl_pc EXCEPT ![c] = "returned"]
    /\ UNCHANGED <<dl_lock, dl_found, dl_did>>
    /\ DlOthersUnchanged

\* except Exception: the state becomes ERROR and the call returns ERROR.
DlError(c) ==
    /\ dl_pc[c] = "failed"
    /\ can_acquire(dl_lock)
    /\ dl_state' = IF dl_state.status # "absent"
                   THEN [dl_state EXCEPT !.status = "error"]
                   ELSE dl_state
    /\ dl_ret' = [dl_ret EXCEPT ![c] = [status |-> "error", progress |-> 0]]
    /\ dl_pc' = [dl_pc EXCEPT ![c] = "returned"]
    /\ UNCHANGED <<dl_lock, dl_found, dl_did>>
    /\ DlOthersUnchanged

NextDownload ==
    \E c \in DlCalls :
        \/ DlAcquire(c) \/ DlCheck(c) \/ DlMark(c)
        \/ DlSnapshotStart(c) \/ DlMonitor(c) \/ DlSnapshotEnd(c)
        \/ DlProgress90(c) \/ DlLoad(c) \/ DlProgress100(c)
        \/ DlReady(c) \/ DlError(c)

SpecDownload == InitDownload /\ [][NextDownload]_vars

\* C16, as stated: a call that finds the model downloading returns status
\* downloading and starts no download, and at most one of the concurrent calls
\* performs the download.
C16_AtMostOneCallDownloads ==
    /\ \A c \in DlCalls :
            dl_found[c] = "downloading" =>
                c \notin dl_did /\ dl_ret[c].status = "downloading"
    /\ Cardinality(dl_did) <= 1

\* C16, amended: a call that finds the model downloading returns the progress
\* stored at that moment with status downloading, changes no state and never
\* downloads; at most one call at a time is performing the download.
C16_DownloadStep ==
    /\ Cardinality({c \in DlCalls : dl_pc'[c] \in DownloadPhases}) <= 1
    /\ \A c \in DlCalls :
            /\ (dl_found'[c] = "downloading" /\ dl_found[c] # "downloading")
                => /\ dl_ret'[c] = [status |-> "downloading",
                                    progress |-> dl_state.progress]
                   /\ dl_pc'[c] = "returned"
                   /\ dl_state' = dl_state
                   /\ \E d \in DlCalls \ {c} : dl_pc[d] \in DownloadPhases
            /\ dl_found'[c] = "downloading" => c \notin dl_did'
C16_DownloadsSerialized == [][C16_DownloadStep]_vars
C16_Witness ==
    \E c \in DlCalls, d \in DlCalls :
        /\ dl_pc[c] = "returned"
        /\ dl_found[c] = "downloading"
        /\ dl_ret[c] = [status |-> "downloading", progress |-> 45]
        /\ dl_pc[d] = "returned"
        /\ dl_ret[d].status = "ready"
        /\ dl_did = {d}


\* ------------------------------------------- SelfCorrectingRAGChain.query

\* Largest max_retries a chain is built with.
MaxRetries == 2
\* Longest chunk list a retrieval returns.
MaxRetrieved == 4

\* Chunk scores in tenths: 0.0, 0.5, 1.0; and the default quality_threshold, 0.5.
Scores == {0, 5, 10}
QUALITY_THRESHOLD == 5
\* _evaluate_quality looks at this many chunks.
TopChunks == 3

\* The question, and what the LLM can answer when asked to broaden a query.
Question == "q"
BroadenedQueries == {"q", "broader q"}

\* What Retriever.retrieve can return for a query: chunks by descending score.
Retrievals(query) ==
    {[query |-> query, chunks |-> c] : c \in
        {c \in UNION {[1..n -> Scores] : n \in 0..MaxRetrieved} :
            \A i \in 1..(Len(c) - 1) : c[i] >= c[i + 1]}}

RECURSIVE SumSeq(_)
SumSeq(scores) == IF scores = <<>> THEN 0 ELSE Head(scores) + SumSeq(Tail(scores))

\* Mutant: the mean is taken over every chunk.
evaluate_quality_all(retrieval) ==
    IF retrieval.chunks = <<>>
    THEN <<0, 1>>
    ELSE <<SumSeq(retrieval.chunks), Len(retrieval.chunks)>>

\* _evaluate_quality: sum(scores) / len(scores) over chunks[:3], 0.0 without
\* chunks; the fraction is kept exact.
evaluate_quality(retrieval) ==
    IF retrieval.chunks = <<>>
    THEN <<0, 1>>
    ELSE LET top_chunks == SubSeq(retrieval.chunks, 1,
                                  IF Len(retrieval.chunks) < TopChunks
                                  THEN Len(retrieval.chunks) ELSE TopChunks)
         IN  <<SumSeq(top_chunks), Len(top_chunks)>>

\* quality >= self.QUALITY_THRESHOLD
quality_passes(quality) == quality[1] >= QUALITY_THRESHOLD * quality[2]

\* _generate_answer: the fallback message without chunks, else the LLM's
\* answer to the question over the retrieval's chunks.
generate_answer(question, retrieval) ==
    IF retrieval.chunks = <<>>
    THEN [kind |-> "fallback", question |-> question, chunks |-> <<>>]
    ELSE [kind |-> "generated", question |-> question, chunks |-> retrieval.chunks]

CorrectionResult ==
    [answer |-> generate_answer(Question, sc_result),
     attempts |-> sc_attempts,
     final_query |-> sc_query,
     retrieval_quality |-> sc_quality,
     all_queries |-> sc_all_queries,
     retrieval_result |-> sc_result]

InitChain ==
    /\ sc_pc = "loop"
    /\ sc_max \in 0..MaxRetries
    /\ sc_attempts = 0
    /\ sc_query = Question
    /\ sc_all_queries = <<Question>>
    /\ sc_result = NoResult
    /\ sc_quality = <<0, 1>>
    /\ sc_events = <<>>
    /\ sc_ret = <<>>
    /\ IdleSync /\ IdleDetect /\ IdleUpsert /\ IdleRevert
    /\ IdleCycle /\ IdleDecide /\ IdleDownload
    /\ IdleFanout /\ IdleAggregate /\ IdleRewrite /\ IdleAux

ScOthersUnchanged ==
    UNCHANGED <<sync_vars, detect_vars, upsert_vars, revert_vars, cycle_vars,
                decide_vars, download_vars, fanout_vars, aggregate_vars, rewrite_vars, aux_vars>>

\* The loop's test passes: attempts += 1, retrieve, evaluate.
ScRetrieve ==
    /\ sc_pc = "loop"
    /\ sc_attempts <= sc_max
    /\ sc_attempts' = sc_attempts + 1
    /\ \E retrieval \in Retrievals(sc_query) :
            /\ sc_result' = retrieval
            /\ sc_quality' = evaluate_quality(retrieval)
            /\ sc_events' = Append(sc_events,
                    [kind |-> "retrieve", quality |-> evaluate_quality(retrieval)])
    /\ sc_pc' = "evaluate"
    /\ UNCHANGED <<sc_max, sc_query, sc_all_queries, sc_ret>>
    /\ ScOthersUnchanged

\* quality >= threshold: the answer is generated and returned.
ScReturn ==
    /\ sc_pc = "evaluate"
    /\ quality_passes(sc_quality)
    /\ sc_ret' = <<CorrectionResult>>
    /\ sc_pc' = "done"
    /\ UNCHANGED <<sc_max, sc_attempts, sc_query, sc_all_queries, sc_result,
                   sc_quality, sc_events>>
    /\ ScOthersUnchanged

\* attempts <= MAX_RETRIES: the LLM broadens the query.
ScBroaden ==
    /\ sc_pc = "evaluate"
    /\ ~quality_passes(sc_quality)
    /\ sc_attempts <= sc_max
    /\ \E broadened \in BroadenedQueries :
            /\ sc_query' = broadened
            /\ sc_all_queries' = Append(sc_all_queries, broadened)
    /\ sc_events' = Append(sc_events, [kind |-> "broaden", quality |-> sc_quality])
    /\ sc_pc' = "loop"
    /\ UNCHANGED <<sc_max, sc_attempts, sc_result, sc_quality, sc_ret>>
    /\ ScOthersUnchanged

\* attempts > MAX_RETRIES: nothing is broadened.
ScSkipBroaden ==
    /\ sc_pc = "evaluate"
    /\ ~quality_passes(sc_quality)
    /\ sc_attempts > sc_max
    /\ sc_pc' = "loop"
    /\ UNCHANGED <<sc_max, sc_attempts, sc_query, sc_all_queries, sc_result,
                   sc_quality, sc_events, sc_ret>>
    /\ ScOthersUnchanged

\* The loop's test fails: the answer comes from the last retrieval.
ScExhausted ==
    /\ sc_pc = "loop"
    /\ sc_attempts > sc_max
    /\ sc_ret' = <<CorrectionResult>>
    /\ sc_pc' = "done"
    /\ UNCHANGED <<sc_max, sc_attempts, sc_query, sc_all_queries, sc_result,
                   sc_quality, sc_events>>
    /\ ScOthersUnchanged

NextChain == ScRetrieve \/ ScReturn \/ ScBroaden \/ ScSkipBroaden \/ ScExhausted

SpecChain == InitChain /\ [][NextChain]_vars

\* C17: query performs at most max_retries + 1 retrievals; it returns at the
\* first retrieval whose quality (mean of the top-3 chunk scores, 0 without
\* chunks) reaches the threshold; it broadens the query exactly once between
\* two consecutive retrievals and never after the last one; on exhaustion it
\* answers from the last retrieval with attempts = max_retries + 1.
C17_RetrieveEvents == {i \in DOMAIN sc_events : sc_events[i].kind = "retrieve"}
C17_BroadenEvents == {i \in DOMAIN sc_events : sc_events[i].kind = "broaden"}
C17_Passes(quality) == 10 * quality[1] >= 5 * 10 * quality[2]
C17_TopThreeMean(chunks) ==
    IF Len(chunks) = 0 THEN <<0, 1>>
    ELSE IF Len(chunks) = 1 THEN <<chunks[1], 1>>
    ELSE IF Len(chunks) = 2 THEN <<chunks[1] + chunks[2], 2>>
    ELSE <<chunks[1] + chunks[2] + chunks[3], 3>>
C17_BoundedSelfCorrection ==
    /\ Cardinality(C17_RetrieveEvents) <= sc_max + 1
    /\ \A i \in DOMAIN sc_events :
            sc_events[i].kind = (IF i % 2 = 1 THEN "retrieve" ELSE "broaden")
    /\ \A i \in C17_RetrieveEvents :
            i < Len(sc_events) => ~C17_Passes(sc_events[i].quality)
    /\ sc_pc = "evaluate" =>
            sc_events[Len(sc_events)].quality = C17_TopThreeMean(sc_result.chunks)
    /\ sc_pc = "done" =>
        /\ sc_events # <<>>
        /\ sc_events[Len(sc_events)].kind = "retrieve"
        /\ sc_events[Len(sc_events)].quality = C17_TopThreeMean(sc_result.chunks)
        /\ sc_ret[1].attempts = Cardinality(C17_RetrieveEvents)
        /\ sc_ret[1].retrieval_result = sc_result
        /\ sc_ret[1].retrieval_quality = C17_TopThreeMean(sc_result.chunks)
        /\ sc_ret[1].answer.chunks = sc_result.chunks
        /\ Len(sc_ret[1].all_queries) = Cardinality(C17_BroadenEvents) + 1
        /\ \/ C17_Passes(sc_ret[1].retrieval_quality)
           \/ sc_ret[1].attempts = sc_max + 1
C17_Witness ==
    /\ sc_pc = "done"
    /\ sc_max = 2
    /\ sc_ret[1].attempts = 3
    /\ ~C17_Passes(sc_ret[1].retrieval_quality)
    /\ Len(sc_result.chunks) = 4
    /\ Cardinality(C17_BroadenEvents) = 2


\* ------------------------------------ ParallelQueryProcessor.process_queries

\* Longest list of queries fanned out.
MaxQueries == 3
Queries == {"q1", "q2"}

\* What the retriever returns for a query that does not raise.
RetrievalOf(query) == [query |-> query, chunks |-> <<>>]

\* The results a list of futures yields when taken in the order `order`,
\* the futures that raised being passed over.
RECURSIVE Completed(_, _, _)
Completed(queries, failing, order) ==
    IF order = <<>> THEN <<>>
    ELSE LET query == queries[Head(order)]
             rest == Completed(queries, failing, Tail(order))
         IN  IF query \in failing THEN rest ELSE <<RetrievalOf(query)>> \o rest

\* process_queries: the outcomes of one call.  An empty list returns at once, a
\* single query is retrieved in the caller's thread with no try around it, and
\* several queries are taken as they complete, in any order.
process_queries(queries, failing) ==
    IF queries = <<>>
    THEN {[raised |-> FALSE, results |-> <<>>]}
    ELSE IF Len(queries) = 1
    THEN IF queries[1] \in failing
         THEN {[raised |-> TRUE, results |-> <<>>]}
         ELSE {[raised |-> FALSE, results |-> <<RetrievalOf(queries[1])>>]}
    ELSE {[raised |-> FALSE, results |-> Completed(queries, failing, order)] :
            order \in Orders(DOMAIN queries)}

\* process_queries_async: gather(return_exceptions=True), the exceptions
\* filtered out, the results in the order of the queries.
process_queries_async(queries, failing) ==
    IF queries = <<>>
    THEN {[raised |-> FALSE, results |-> <<>>]}
    ELSE {[raised |-> FALSE,
           results |-> Completed(queries, failing, [i \in DOMAIN queries |-> i])]}

InitFanout ==
    /\ pq_pc = "input"
    /\ pq_queries \in BoundedSeqs(Queries, MaxQueries)
    /\ pq_failing \in SUBSET Queries
    /\ pq_async \in BOOLEAN
    /\ pq_out = <<>>
    /\ IdleSync /\ IdleDetect /\ IdleUpsert /\ IdleRevert
    /\ IdleCycle /\ IdleDecide /\ IdleDownload
    /\ IdleChain /\ IdleAggregate /\ IdleRewrite /\ IdleAux

ProcessQueries ==
    /\ pq_pc = "input"
    /\ \E out \in (IF pq_async
                   THEN process_queries_async(pq_queries, pq_failing)
                   ELSE process_queries(pq_queries, pq_failing)) :
            pq_out' = <<out>>
    /\ pq_pc' = "done"
    /\ UNCHANGED <<pq_queries, pq_failing, pq_async>>
    /\ UNCHANGED <<sync_vars, detect_vars, upsert_vars, revert_vars, cycle_vars,
                   decide_vars, download_vars, chain_vars, aggregate_vars, rewrite_vars, aux_vars>>

NextFanout == ProcessQueries

SpecFanout == InitFanout /\ [][NextFanout]_vars

\* C18: for a non-empty list of queries, one query included, the call does not
\* raise when retrievals raise, and it returns the results of all the queries
\* whose retrieval did not raise, one per such query.
C18_FailuresDropped ==
    (pq_pc = "done" /\ pq_queries # <<>>) =>
        /\ ~pq_out[1].raised
        /\ \A q \in Queries :
                Cardinality({i \in DOMAIN pq_out[1].results :
                                pq_out[1].results[i].query = q})
                    = IF q \in pq_failing THEN 0
                      ELSE Cardinality({i \in DOMAIN pq_queries : pq_queries[i] = q})


\* --------------------------------- ParallelQueryProcessor.aggregate_results

\* Longest list of results aggregated, longest chunk list of one result, and
\* largest top_k.
MaxResults == 2
MaxResultChunks == 2
MaxTopK == 3

AgIds == {"c1", "c2", "c3"}
AgScores == {1, 2}
AgChunks == [id : AgIds, score : AgScores]
AgResults ==
    {[query |-> "q", chunks |-> c] : c \in BoundedSeqs(AgChunks, MaxResultChunks)}

\* The loop over one result's chunks: a chunk whose id was seen is passed over
\* when dedup is on.
RECURSIVE collect_chunks(_, _, _)
collect_chunks(chunks, dedup, all_chunks) ==
    IF chunks = <<>> THEN all_chunks
    ELSE LET chunk == Head(chunks)
             seen_ids == {all_chunks[i].id : i \in DOMAIN all_chunks}
         IN  collect_chunks(Tail(chunks), dedup,
                            IF dedup /\ chunk.id \in seen_ids
                            THEN all_chunks
                            ELSE Append(all_chunks, chunk))

\* The loop over the results.
RECURSIVE collect_results(_, _, _)
collect_results(results, dedup, all_chunks) ==
    IF results = <<>> THEN all_chunks
    ELSE collect_results(Tail(results), dedup,
                         collect_chunks(Head(results).chunks, dedup, all_chunks))

\* Mutant: the chunks are left in the order they were collected in.
sort_by_score_unsorted(chunks) == chunks

\* list.sort(key=score, reverse=True): stable, equal scores keep their order.
RECURSIVE sort_by_score(_)
sort_by_score(chunks) ==
    IF chunks = <<>> THEN <<>>
    ELSE LET sorted == sort_by_score(SubSeq(chunks, 1, Len(chunks) - 1))
             chunk == chunks[Len(chunks)]
             k == Cardinality({i \in DOMAIN sorted : sorted[i].score >= chunk.score})
         IN  SubSeq(sorted, 1, k) \o <<chunk>> \o SubSeq(sorted, k + 1, Len(sorted))

aggregate_results(results, top_k, dedup) ==
    IF results = <<>>
    THEN [queries |-> <<>>, chunks |-> <<>>, total_count |-> 0]
    ELSE LET all_chunks == sort_by_score(collect_results(results, dedup, <<>>))
         IN  [queries |-> [i \in DOMAIN results |-> results[i].query],
              chunks |-> SubSeq(all_chunks, 1,
                                IF Len(all_chunks) < top_k THEN Len(all_chunks) ELSE top_k),
              total_count |-> Len(all_chunks)]

InitAggregate ==
    /\ ag_pc = "input"
    /\ ag_results \in BoundedSeqs(AgResults, MaxResults)
    /\ ag_top_k \in 0..MaxTopK
    /\ ag_dedup \in BOOLEAN
    /\ ag_out = <<>>
    /\ IdleSync /\ IdleDetect /\ IdleUpsert /\ IdleRevert
    /\ IdleCycle /\ IdleDecide /\ IdleDownload
    /\ IdleChain /\ IdleFanout /\ IdleRewrite /\ IdleAux

Aggregate ==
    /\ ag_pc = "input"
    /\ ag_out' = <<aggregate_results(ag_results, ag_top_k, ag_dedup)>>
    /\ ag_pc' = "done"
    /\ UNCHANGED <<ag_results, ag_top_k, ag_dedup>>
    /\ UNCHANGED <<sync_vars, detect_vars, upsert_vars, revert_vars, cycle_vars,
                   decide_vars, download_vars, chain_vars, fanout_vars, rewrite_vars, aux_vars>>

NextAggregate == Aggregate

SpecAggregate == InitAggregate /\ [][NextAggregate]_vars

\* C19: with dedup on, the chunks returned come from the results, carry each id
\* at most once, are in descending score order and are the first top_k of the
\* deduplicated union (an id left out has a chunk that scores no higher than
\* every chunk returned); total_count is the number of distinct ids.
C19_InputChunks ==
    UNION {{ag_results[r].chunks[i] : i \in DOMAIN ag_results[r].chunks} :
                r \in DOMAIN ag_results}
C19_InputIds == {c.id : c \in C19_InputChunks}
C19_Aggregation ==
    (ag_pc = "done" /\ ag_dedup) =>
        LET out == ag_out[1].chunks
            out_ids == {out[i].id : i \in DOMAIN out}
        IN  /\ \A i \in DOMAIN out : out[i] \in C19_InputChunks
            /\ \A i, j \in DOMAIN out : i # j => out[i].id # out[j].id
            /\ \A i, j \in DOMAIN out : i < j => out[i].score >= out[j].score
            /\ ag_out[1].total_count = Cardinality(C19_InputIds)
            /\ Len(out) = IF Cardinality(C19_InputIds) < ag_top_k
                          THEN Cardinality(C19_InputIds) ELSE ag_top_k
            /\ \A id \in C19_InputIds \ out_ids :
                    \E c \in C19_InputChunks :
                        /\ c.id = id
                        /\ \A i \in DOMAIN out : c.score <= out[i].score
C19_Witness ==
    /\ ag_pc = "done" /\ ag_dedup
    /\ Len(ag_results) = 2
    /\ Len(ag_results[1].chunks) = 2 /\ Len(ag_results[2].chunks) = 2
    /\ ag_top_k = 2
    /\ ag_out[1].total_count = 3
    /\ Len(ag_out[1].chunks) = 2
    /\ ag_out[1].chunks[1] # ag_results[1].chunks[1]
    /\ ag_out[1].chunks[1].score > ag_out[1].chunks[2].score


\* ----------------------------------------------------- QueryRewriter.rewrite

\* Longest response of the LLM, in tokens.
MaxTokens == 3

\* The pieces a response is made of: a code fence (``` or ```json with the
\* white space after it); a JSON object without inner braces that carries the
\* three keys; the JSON object {}; a brace pair whose content is not JSON;
\* prose without braces; the text of the query itself.
RwTokens == {"FENCE", "OBJ", "EMPTYOBJ", "BAD", "TXT", "QUERY"}
RwQuery == <<"QUERY">>

\* json.loads of one piece: the dict of a JSON object, nothing (JSONDecodeError)
\* for any other piece.
ObjDict ==
    [is_clear |-> FALSE, rewritten_queries |-> <<<<"TXT">>, <<"QUERY">>>>,
     clarification_needed |-> "None"]
EmptyDict == [x \in {} |-> x]
json_loads(content) ==
    IF content = <<"OBJ">> THEN {ObjDict}
    ELSE IF content = <<"EMPTYOBJ">> THEN {EmptyDict}
    ELSE {}

\* re.sub(r"```(?:json)?\s*", "", content): every fence is removed.
strip_fences(content) == SelectSeq(content, LAMBDA t : t # "FENCE")

\* re.search(r"\{[^{}]*\}", content): the first brace pair, if any.
brace_match(content) ==
    LET braces == SelectSeq(content, LAMBDA t : t \in {"OBJ", "EMPTYOBJ", "BAD"})
    IN  IF braces = <<>> THEN <<>> ELSE <<braces[1]>>

\* The dict _parse_response returns when nothing parses.
fallback_dict(content) ==
    [is_clear |-> TRUE,
     rewritten_queries |-> IF content # <<>> THEN <<content>> ELSE <<>>,
     clarification_needed |-> "None"]

\* _parse_response
parse_response(response) ==
    LET content == IF response # <<>> /\ response[1] = "FENCE"
                   THEN strip_fences(response) ELSE response
    IN  IF json_loads(content) # {}
        THEN CHOOSE d \in json_loads(content) : TRUE
        ELSE IF brace_match(content) # <<>> /\ json_loads(brace_match(content)) # {}
        THEN CHOOSE d \in json_loads(brace_match(content)) : TRUE
        ELSE fallback_dict(content)

\* dict.get(key, default)
dict_get(d, key, default) == IF key \in DOMAIN d THEN d[key] ELSE default

\* rewrite
rewrite(query, response) ==
    LET parsed == parse_response(response)
    IN  [is_clear |-> dict_get(parsed, "is_clear", TRUE),
         rewritten_queries |-> dict_get(parsed, "rewritten_queries", <<query>>),
         clarification_needed |-> dict_get(parsed, "clarification_needed", "None"),
         original_query |-> query]

InitRewrite ==
    /\ rw_pc = "input"
    /\ rw_query = RwQuery
    /\ rw_response \in BoundedSeqs(RwTokens, MaxTokens)
    /\ rw_out = <<>>
    /\ IdleSync /\ IdleDetect /\ IdleUpsert /\ IdleRevert
    /\ IdleCycle /\ IdleDecide /\ IdleDownload
    /\ IdleChain /\ IdleFanout /\ IdleAggregate /\ IdleAux

Rewrite ==
    /\ rw_pc = "input"
    /\ rw_out' = <<rewrite(rw_query, rw_response)>>
    /\ rw_pc' = "done"
    /\ UNCHANGED <<rw_query, rw_response>>
    /\ UNCHANGED <<sync_vars, detect_vars, upsert_vars, revert_vars, cycle_vars,
                   decide_vars, download_vars, chain_vars, fanout_vars, aggregate_vars, aux_vars>>

NextRewrite == Rewrite

SpecRewrite == InitRewrite /\ [][NextRewrite]_vars

\* C20: when the response parses neither as a whole, nor after its code fence
\* is stripped, nor as an embedded object, rewrite returns the original query
\* as the single rewrite, with is_clear = true.
C20_Unparseable ==
    LET braces == SelectSeq(rw_response, LAMBDA t : t \in {"OBJ", "EMPTYOBJ", "BAD"})
    IN  braces = <<>> \/ braces[1] = "BAD"
C20_ParseFailureKeepsQuery ==
    (rw_pc = "done" /\ C20_Unparseable) =>
        /\ rw_out[1].rewritten_queries = <<rw_query>>
        /\ rw_out[1].is_clear = TRUE

\* ------------------------------------------------- HybridSearcher.search

\* Most candidates the store returns, most documents indexed, largest top_k.
MaxDense == 2
MaxDocs == 2
MaxHsTopK == 2

\* Scores are held as multiples of 1/ScoreScale, weights in tenths, so a final
\* score is a multiple of 1/(10 * ScoreScale).
ScoreScale == 12
HsIds == {"a", "b", "c"}
Distances == {0, 1, 2}
NoDistance == -1
BM25Raw == {0, 1, 2}

\* __init__: each weight in [0, 1], the two summing to 1.
valid_weights(weights) ==
    /\ weights.dense \in 0..10 /\ weights.sparse \in 0..10
    /\ weights.dense + weights.sparse = 10
Weights == {weights \in [dense : {5, 7, 10}, sparse : {0, 3, 5}] : valid_weights(weights)}

\* ChromaStore.query: distinct ids, nearest first; the distances are all
\* present or all None.
DenseResults ==
    {r \in BoundedSeqs([id : HsIds, distance : Distances \cup {NoDistance}], MaxDense) :
        /\ \A i, j \in DOMAIN r : i # j => r[i].id # r[j].id
        /\ \/ \A i \in DOMAIN r : r[i].distance = NoDistance
           \/ /\ \A i \in DOMAIN r : r[i].distance # NoDistance
              /\ \A i, j \in DOMAIN r : i < j => r[i].distance <= r[j].distance}
DocIds ==
    {ids \in BoundedSeqs(HsIds, MaxDocs) :
        /\ ids # <<>>
        /\ \A i, j \in DOMAIN ids : i # j => ids[i] # ids[j]}

\* Retriever._distance_to_score
_distance_to_score(distance) ==
    IF distance = NoDistance THEN 0 ELSE ScoreScale \div (1 + distance)

\* 1 / (1 + r["distance"]) if r["distance"] else 0.0: None and 0 are both falsy.
dense_score(distance) ==
    IF distance = NoDistance \/ distance = 0 THEN 0 ELSE ScoreScale \div (1 + distance)

dense_scores(dense_results) ==
    [id \in {dense_results[i].id : i \in DOMAIN dense_results} |->
        LET last == CHOOSE i \in DOMAIN dense_results :
                        /\ dense_results[i].id = id
                        /\ \A j \in DOMAIN dense_results :
                               dense_results[j].id = id => j <= i
        IN  dense_score(dense_results[last].distance)]

max_bm25(bm25_scores_raw) ==
    LET top == CHOOSE x \in {bm25_scores_raw[i] : i \in DOMAIN bm25_scores_raw} :
                   \A i \in DOMAIN bm25_scores_raw : bm25_scores_raw[i] <= x
    IN  IF top > 0 THEN top ELSE 1

sparse_scores(doc_ids, bm25_scores_raw) ==
    [id \in {doc_ids[i] : i \in DOMAIN doc_ids} |->
        LET last == CHOOSE i \in DOMAIN doc_ids :
                        doc_ids[i] = id /\ \A j \in DOMAIN doc_ids : doc_ids[j] = id => j <= i
        IN  (bm25_scores_raw[last] * ScoreScale) \div max_bm25(bm25_scores_raw)]

all_ids(dense_results, doc_ids) ==
    {dense_results[i].id : i \in DOMAIN dense_results} \cup {doc_ids[i] : i \in DOMAIN doc_ids}

dict_get_score(scores, doc_id) == IF doc_id \in DOMAIN scores THEN scores[doc_id] ELSE 0

final_score_dense_only(weights, d_score, s_score) == weights.dense * d_score

final_score(weights, d_score, s_score) ==
    weights.dense * d_score + weights.sparse * s_score

\* The loop over all_ids, a set: order is the order it iterates in.
combined(order, dense_results, doc_ids, bm25_scores_raw, weights) ==
    [i \in DOMAIN order |->
        LET d_score == dict_get_score(dense_scores(dense_results), order[i])
            s_score == dict_get_score(sparse_scores(doc_ids, bm25_scores_raw), order[i])
        IN  [id |-> order[i],
             score |-> final_score(weights, d_score, s_score),
             dense_score |-> d_score,
             sparse_score |-> s_score]]

\* The results search can return, one per iteration order of all_ids.
search(dense_results, doc_ids, bm25_scores_raw, weights, top_k) ==
    {LET sorted == sort_by_score(combined(order, dense_results, doc_ids,
                                          bm25_scores_raw, weights))
     IN  SubSeq(sorted, 1, IF Len(sorted) < top_k THEN Len(sorted) ELSE top_k) :
        order \in Orders(all_ids(dense_results, doc_ids))}

InitHybrid ==
    /\ hs_pc = "input"
    /\ hs_top_k \in 1..MaxHsTopK
    /\ hs_dense \in {r \in DenseResults : Len(r) <= hs_top_k * 2}
    /\ hs_doc_ids \in DocIds
    /\ hs_bm25_raw \in [DOMAIN hs_doc_ids -> BM25Raw]
    /\ hs_weights \in Weights
    /\ hs_out = <<>>
    /\ IdleSync /\ IdleDetect /\ IdleUpsert /\ IdleRevert
    /\ IdleCycle /\ IdleDecide /\ IdleDownload /\ IdleAgentic /\ IdleAfterHybrid

Search ==
    /\ hs_pc = "input"
    /\ hs_out' \in search(hs_dense, hs_doc_ids, hs_bm25_raw, hs_weights, hs_top_k)
    /\ hs_pc' = "done"
    /\ UNCHANGED <<hs_dense, hs_doc_ids, hs_bm25_raw, hs_weights, hs_top_k>>
    /\ UNCHANGED <<sync_vars, detect_vars, upsert_vars, revert_vars, cycle_vars,
                   decide_vars, download_vars, agentic_vars, after_hybrid_vars>>

NextHybrid == Search

SpecHybrid == InitHybrid /\ [][NextHybrid]_vars

\* C21: search scores every id of the union of the dense candidates and the
\* indexed documents as dense_weight * d + sparse_weight * s, with d = 0 or
\* s = 0 for an id one source lacks; it returns at most top_k results, the
\* highest scored ones, in descending final score, each with its d and s.
C21_Union == all_ids(hs_dense, hs_doc_ids)
C21_D(id) ==
    IF \E i \in DOMAIN hs_dense : hs_dense[i].id = id
    THEN dense_score(hs_dense[CHOOSE i \in DOMAIN hs_dense : hs_dense[i].id = id].distance)
    ELSE 0
C21_S(id) ==
    IF \E i \in DOMAIN hs_doc_ids : hs_doc_ids[i] = id
    THEN (hs_bm25_raw[CHOOSE i \in DOMAIN hs_doc_ids : hs_doc_ids[i] = id] * ScoreScale)
             \div max_bm25(hs_bm25_raw)
    ELSE 0
C21_Final(id) == hs_weights.dense * C21_D(id) + hs_weights.sparse * C21_S(id)
C21_Returned == {hs_out[i].id : i \in DOMAIN hs_out}
C21_WeightedUnion ==
    hs_pc = "done" =>
        /\ Len(hs_out) <= hs_top_k
        /\ Len(hs_out) = hs_top_k \/ C21_Returned = C21_Union
        /\ C21_Returned \subseteq C21_Union
        /\ \A i, j \in DOMAIN hs_out : i # j => hs_out[i].id # hs_out[j].id
        /\ \A i \in DOMAIN hs_out :
               /\ hs_out[i].dense_score = C21_D(hs_out[i].id)
               /\ hs_out[i].sparse_score = C21_S(hs_out[i].id)
               /\ hs_out[i].score = C21_Final(hs_out[i].id)
        /\ \A i, j \in DOMAIN hs_out : i < j => hs_out[i].score >= hs_out[j].score
        /\ \A id \in C21_Union \ C21_Returned :
               \A i \in DOMAIN hs_out : hs_out[i].score >= C21_Final(id)
C21_Witness ==
    /\ hs_pc = "done"
    /\ Cardinality(C21_Union) > hs_top_k
    /\ hs_weights.dense > 0 /\ hs_weights.sparse > 0
    /\ \E i, j \in DOMAIN hs_out :
           /\ hs_out[i].id \notin {hs_doc_ids[k] : k \in DOMAIN hs_doc_ids}
           /\ hs_out[i].dense_score > 0
           /\ hs_out[j].id \notin {hs_dense[k].id : k \in DOMAIN hs_dense}
           /\ hs_out[j].sparse_score > 0

\* C30: every dense candidate at a distance d >= 0 gets the dense score
\* 1/(1+d), the value of Retriever._distance_to_score: 1 at distance 0, and a
\* candidate no farther than another scores no lower.
C30_DenseScoreOfDistance ==
    hs_pc = "done" =>
        /\ \A i \in DOMAIN hs_out : \A k \in DOMAIN hs_dense :
               (hs_dense[k].id = hs_out[i].id /\ hs_dense[k].distance # NoDistance) =>
                   hs_out[i].dense_score = _distance_to_score(hs_dense[k].distance)
        /\ \A i, j \in DOMAIN hs_out : \A k, l \in DOMAIN hs_dense :
               ( /\ hs_dense[k].id = hs_out[i].id /\ hs_dense[l].id = hs_out[j].id
                 /\ hs_dense[k].distance # NoDistance /\ hs_dense[l].distance # NoDistance
                 /\ hs_dense[k].distance <= hs_dense[l].distance ) =>
                   hs_out[i].dense_score >= hs_out[j].dense_score

\* --------------------------------------------------------- Reranker.rerank

\* Most documents handed to rerank, largest top_k.
MaxRrDocs == 3
MaxRrTopK == 3

RrTexts == {"x", "y"}
RrScores == {1, 2}

\* RankedDocument for each (document, score) pair, original_index from 0.
ranked_documents(documents, scores) ==
    [i \in 1..(IF Len(documents) < Len(scores) THEN Len(documents) ELSE Len(scores)) |->
        [text |-> documents[i], score |-> scores[i], original_index |-> i - 1]]

ranked_sort_ties_reversed(ranked) ==
    sort_by_score([i \in DOMAIN ranked |-> ranked[Len(ranked) + 1 - i]])

\* ranked.sort(key=score, reverse=True)
ranked_sort(ranked) == sort_by_score(ranked)

rerank(documents, scores, top_k) ==
    IF documents = <<>> THEN <<>>
    ELSE LET ranked == ranked_sort(ranked_documents(documents, scores))
         IN  SubSeq(ranked, 1, IF Len(ranked) < top_k THEN Len(ranked) ELSE top_k)

InitRerank ==
    /\ rr_pc = "input"
    /\ rr_documents \in BoundedSeqs(RrTexts, MaxRrDocs)
    /\ rr_scores \in [DOMAIN rr_documents -> RrScores]
    /\ rr_top_k \in 0..MaxRrTopK
    /\ rr_out = <<>>
    /\ IdleSync /\ IdleDetect /\ IdleUpsert /\ IdleRevert
    /\ IdleCycle /\ IdleDecide /\ IdleDownload /\ IdleAgentic /\ IdleHybrid
    /\ IdleAfterRerank

Rerank ==
    /\ rr_pc = "input"
    /\ rr_out' = rerank(rr_documents, rr_scores, rr_top_k)
    /\ rr_pc' = "done"
    /\ UNCHANGED <<rr_documents, rr_scores, rr_top_k>>
    /\ UNCHANGED <<sync_vars, detect_vars, upsert_vars, revert_vars, cycle_vars,
                   decide_vars, download_vars, agentic_vars, hybrid_vars,
                   after_rerank_vars>>

NextRerank == Rerank

SpecRerank == InitRerank /\ [][NextRerank]_vars

\* C22: rerank returns at most top_k documents, the highest scored ones, in
\* descending model score, each with the index it had in the input; documents
\* of equal score come in ascending original index, so the result is a
\* function of the documents, the model's scores and top_k.
C22_Before(a, b) ==
    \/ rr_scores[a + 1] > rr_scores[b + 1]
    \/ rr_scores[a + 1] = rr_scores[b + 1] /\ a < b
C22_Indices == {rr_out[i].original_index : i \in DOMAIN rr_out}
C22_StableTopK ==
    rr_pc = "done" =>
        /\ Len(rr_out) <= rr_top_k
        /\ Len(rr_out) = rr_top_k \/ Len(rr_out) = Len(rr_documents)
        /\ \A i \in DOMAIN rr_out :
               /\ rr_out[i].original_index \in 0..(Len(rr_documents) - 1)
               /\ rr_out[i].text = rr_documents[rr_out[i].original_index + 1]
               /\ rr_out[i].score = rr_scores[rr_out[i].original_index + 1]
        /\ \A i, j \in DOMAIN rr_out :
               i < j => C22_Before(rr_out[i].original_index, rr_out[j].original_index)
        /\ \A a \in 0..(Len(rr_documents) - 1) :
               a \notin C22_Indices => \A b \in C22_Indices : C22_Before(b, a)
C22_Witness ==
    /\ rr_pc = "done"
    /\ Len(rr_documents) > rr_top_k
    /\ \E i, j \in DOMAIN rr_out : i < j /\ rr_out[i].score = rr_out[j].score
    /\ \E i \in DOMAIN rr_out : rr_out[i].original_index # i - 1

\* ----------------------------------------------------------- semantic_chunk

\* A text is a sequence of paragraphs, the pieces that blank lines separate.
\* A piece is [size, block]: its length, and the code block it is part of
\* (0 for plain text and header lines). A fenced code block with blank lines
\* inside is several consecutive pieces of one block.
MaxSections == 2
MaxCodePieces == 2

\* len("\n\n")
Separator == 2
HeaderSize == 2
TextSizes == {3, 7}
CodeSizes == {1, 3}
\* chunk_level, by default 2
ChunkLevel == 2
HeaderLevels == {2, 3}
ChunkSizes == {6, 12}
MinSizes == {0, 4}

TextPieces == BoundedSeqs([size : TextSizes, code : {FALSE}], 1)
CodePieces == BoundedSeqs([size : CodeSizes, code : {TRUE}], MaxCodePieces)
\* What follows a header line: text, one code block, text, each optional.
Bodies == {before \o block \o after :
               before \in TextPieces, block \in CodePieces, after \in TextPieces}
\* The text before the first header is short when headers follow.
Documents ==
    {doc \in [preamble : Bodies,
              sections : BoundedSeqs([level : HeaderLevels, body : Bodies], MaxSections)] :
        doc.sections # <<>> =>
            Len(doc.preamble) <= 1 /\ \A i \in DOMAIN doc.preamble : doc.preamble[i].size = 3}

RECURSIVE SumSizes(_)
SumSizes(text) == IF text = <<>> THEN 0 ELSE Head(text).size + SumSizes(Tail(text))

\* len(text)
text_len(text) ==
    IF text = <<>> THEN 0 ELSE SumSizes(text) + Separator * (Len(text) - 1)

\* The pieces of a body, its code block numbered n.
body_text(body, n) ==
    [i \in DOMAIN body |-> [size |-> body[i].size, block |-> IF body[i].code THEN n ELSE 0]]

\* protected_body[header.position : end_pos].strip(), code blocks restored:
\* the header line, then what follows it.
section_text(sections, i) ==
    <<[size |-> HeaderSize, block |-> 0]>> \o body_text(sections[i].body, i)

\* The code block of the text before the first header has number 0 + Len + 1.
preamble_text(doc) == body_text(doc.preamble, Len(doc.sections) + 1)

RECURSIVE split_loop(_, _, _, _)
split_loop(paragraphs, max_size, chunks, current_chunk) ==
    IF paragraphs = <<>>
    THEN IF current_chunk # <<>> THEN Append(chunks, current_chunk) ELSE chunks
    ELSE LET para == Head(paragraphs)
             current_size == SumSizes(current_chunk) + Separator * Len(current_chunk)
             full == current_size + para.size + Separator > max_size /\ current_chunk # <<>>
         IN  split_loop(Tail(paragraphs), max_size,
                        IF full THEN Append(chunks, current_chunk) ELSE chunks,
                        IF full THEN <<para>> ELSE Append(current_chunk, para))

_split_by_paragraphs(text, max_size) == split_loop(text, max_size, <<>>, <<>>)

\* A pending chunk is emitted when the next chunk-level header arrives.
flush_pending(chunks, ptext, max_size) ==
    IF ptext = <<>> THEN chunks
    ELSE IF text_len(ptext) > max_size
         THEN chunks \o _split_by_paragraphs(ptext, max_size)
         ELSE Append(chunks, ptext)

\* The loop over header_marks; pending <<>> is pending_chunk = None.
RECURSIVE chunk_sections(_, _, _, _, _)
chunk_sections(sections, i, max_size, chunks, pending) ==
    IF i > Len(sections) THEN [chunks |-> chunks, pending |-> pending]
    ELSE IF sections[i].level <= ChunkLevel
         THEN chunk_sections(sections, i + 1, max_size,
                             flush_pending(chunks, pending, max_size),
                             section_text(sections, i))
         ELSE chunk_sections(sections, i + 1, max_size, chunks,
                             pending \o section_text(sections, i))

\* The last pending chunk.
finish_pending(chunks, ptext, min_size, max_size) ==
    IF ptext = <<>> THEN chunks
    ELSE IF text_len(ptext) < min_size
         THEN IF chunks # <<>> /\ text_len(chunks[Len(chunks)] \o ptext) <= max_size
              THEN [chunks EXCEPT ![Len(chunks)] = chunks[Len(chunks)] \o ptext]
              ELSE Append(chunks, ptext)
         ELSE IF text_len(ptext) > max_size
              THEN chunks \o _split_by_paragraphs(ptext, max_size)
              ELSE Append(chunks, ptext)

semantic_chunk(doc, min_size, max_size) ==
    IF doc.sections = <<>>
    THEN <<preamble_text(doc)>>
    ELSE LET looped == chunk_sections(doc.sections, 1, max_size, <<>>, <<>>)
         IN  finish_pending(looped.chunks, looped.pending, min_size, max_size)

InitChunk ==
    /\ ck_pc = "input"
    /\ ck_doc \in Documents
    /\ ck_min_size \in MinSizes
    /\ ck_max_size \in ChunkSizes
    /\ ck_out = <<>>
    /\ IdleSync /\ IdleDetect /\ IdleUpsert /\ IdleRevert
    /\ IdleCycle /\ IdleDecide /\ IdleDownload /\ IdleAgentic /\ IdleHybrid
    /\ IdleRerank /\ IdleAfterChunk

SemanticChunk ==
    /\ ck_pc = "input"
    /\ ck_out' = semantic_chunk(ck_doc, ck_min_size, ck_max_size)
    /\ ck_pc' = "done"
    /\ UNCHANGED <<ck_doc, ck_min_size, ck_max_size>>
    /\ UNCHANGED <<sync_vars, detect_vars, upsert_vars, revert_vars, cycle_vars,
                   decide_vars, download_vars, agentic_vars, hybrid_vars, rerank_vars,
                   after_chunk_vars>>

NextChunk == SemanticChunk

SpecChunk == InitChunk /\ [][NextChunk]_vars

\* The pieces of code block n in a text, and the code blocks of the input.
BlockPieces(text, n) == SelectSeq(text, LAMBDA piece : piece.block = n)
InputText(n) ==
    IF n = Len(ck_doc.sections) + 1 THEN preamble_text(ck_doc)
    ELSE section_text(ck_doc.sections, n)
InputBlocks ==
    {n \in 1..(Len(ck_doc.sections) + 1) : BlockPieces(InputText(n), n) # <<>>}

\* C23: every chunk is at most max_size long, unless it holds a code block
\* that is itself longer than max_size.
C23_ChunkSizeBound ==
    ck_pc = "done" =>
        \A i \in DOMAIN ck_out :
            \/ text_len(ck_out[i]) <= ck_max_size
            \/ \E n \in InputBlocks :
                   /\ BlockPieces(ck_out[i], n) # <<>>
                   /\ text_len(BlockPieces(InputText(n), n)) > ck_max_size

\* C24: every code block of the input, one with blank lines inside and in a
\* section longer than max_size included, is whole inside one chunk.
C24_CodeBlockWhole ==
    ck_pc = "done" =>
        \A n \in InputBlocks :
            \E i \in DOMAIN ck_out :
                BlockPieces(ck_out[i], n) = BlockPieces(InputText(n), n)

\* ------------------------------------- sync(), one statement at a time

\* The vault has been synced once; no cycle is running.
InitOrder ==
    /\ tree \in InitialTrees
    /\ \E r \in sync(tree, EmptyRegistry, EmptyStore, NoFailure) :
            /\ registry = r.registry
            /\ saved = r.registry
            /\ store = r.store
            /\ result = r.result
            /\ swallowed = r.swallowed
    /\ lastOp = "sync"
    /\ wasStable = FALSE
    /\ edits = 0
    /\ st_pc = "none" /\ st_count = 0 /\ st_log = <<>>
    /\ cy_pc = "idle" /\ cy_todo = <<>> /\ cy_skipped = 0 /\ cy_file = <<>>
    /\ tg_root = NoVault /\ tg_corrupt = FALSE /\ tg_full = FALSE
    /\ IdleDetect /\ IdleUpsert /\ IdleRevert
    /\ IdleDecide /\ IdleDownload /\ IdleAgentic /\ IdleHybrid /\ IdleRerank /\ IdleChunk
    /\ IdleAfterOrder

OrOthersUnchanged ==
    UNCHANGED <<detect_vars, upsert_vars, revert_vars, decide_vars, download_vars,
                agentic_vars, hybrid_vars, rerank_vars, chunk_vars, after_order_vars,
                cy_file, tg_root, tg_corrupt, tg_full>>

OrEdit ==
    /\ cy_pc = "idle"
    /\ WriteFile \/ RemoveFile

\* sync() steps 1 to 3: scan, collect the states, detect the changes.
OrStart ==
    /\ cy_pc = "idle"
    /\ LET cs == collect_states(scan(tree), tree, NoFailure,
                                [states |-> <<>>, errors |-> <<>>])
           changes == detect_changes(cs.states, registry.files)
       IN  /\ \E deleted \in Orders(changes.deleted) :
                    cy_todo' = CycleSteps(changes, deleted)
           /\ cy_skipped' = Len(changes.unchanged)
    /\ result' = ZeroResult
    /\ swallowed' = {}
    /\ cy_pc' = "files"
    /\ lastOp' = "cycle"
    /\ wasStable' = FALSE
    /\ st_pc' = "none" /\ st_count' = 0 /\ st_log' = <<>>
    /\ UNCHANGED <<tree, registry, saved, store, edits>>
    /\ OrOthersUnchanged

\* _process_file: read, chunk and upsert the file of the iteration.
OrUpsert ==
    /\ cy_pc = "files" /\ cy_todo # <<>> /\ st_pc = "none"
    /\ Head(cy_todo).kind \in {"add", "modify"}
    /\ LET p == Head(cy_todo).file_state.relative_path
           up == upsert_chunks(store, FileChunks(tree[p].content, p), p)
       IN  /\ store' = up.store
           /\ st_count' = up.count
           /\ st_log' = Append(st_log, [path |-> p, kind |-> Head(cy_todo).kind, op |-> "upsert"])
    /\ st_pc' = "update"
    /\ UNCHANGED <<tree, registry, saved, result, lastOp, wasStable, swallowed, edits,
                   cy_pc, cy_todo, cy_skipped>>
    /\ OrOthersUnchanged

\* _process_file: registry.update_file_info, then return chunk_count.
OrUpdate ==
    /\ st_pc = "update"
    /\ LET file_state == Head(cy_todo).file_state
           p == file_state.relative_path
       IN  /\ registry' = [registry EXCEPT !.files =
                    update_file_info(@, p, file_state.content_hash, file_state.mtime,
                                     st_count)]
           /\ st_log' = Append(st_log, [path |-> p, kind |-> Head(cy_todo).kind, op |-> "registry_update"])
    /\ st_pc' = IF Head(cy_todo).kind = "modify" THEN "overflow" ELSE "count"
    /\ UNCHANGED <<tree, saved, store, result, lastOp, wasStable, swallowed, edits,
                   cy_pc, cy_todo, cy_skipped, st_count>>
    /\ OrOthersUnchanged

\* Loop 4b: old_info is read and the overflow rows are deleted, or not.
OrOverflow ==
    /\ st_pc = "overflow"
    /\ LET p == Head(cy_todo).file_state.relative_path
           old_info == get_file_info(registry.files, p)
           overflow == \E info \in old_info : info.chunk_count > st_count
       IN  /\ store' = IF overflow THEN delete_chunks_by_prefix(store, p, st_count)
                       ELSE store
           /\ st_log' = Append(st_log, [path |-> p, kind |-> "modify",
                                        op |-> IF overflow THEN "overflow_deleted"
                                               ELSE "overflow_none"])
    /\ st_pc' = "count"
    /\ UNCHANGED <<tree, registry, saved, result, lastOp, wasStable, swallowed, edits,
                   cy_pc, cy_todo, cy_skipped, st_count>>
    /\ OrOthersUnchanged

\* result.added or result.modified, and result.total_chunks.
OrCount ==
    /\ st_pc = "count"
    /\ result' = IF Head(cy_todo).kind = "add"
                 THEN [result EXCEPT !.added = @ + 1, !.total_chunks = @ + st_count]
                 ELSE [result EXCEPT !.modified = @ + 1, !.total_chunks = @ + st_count]
    /\ cy_todo' = Tail(cy_todo)
    /\ st_pc' = "none"
    /\ UNCHANGED <<tree, registry, saved, store, lastOp, wasStable, swallowed, edits,
                   cy_pc, cy_skipped, st_count, st_log>>
    /\ OrOthersUnchanged

\* One iteration of loop 4c.
OrDelete ==
    /\ cy_pc = "files" /\ cy_todo # <<>> /\ st_pc = "none"
    /\ Head(cy_todo).kind = "delete"
    /\ LET p == Head(cy_todo).file_state.relative_path
           acc == [store |-> store, files |-> registry.files,
                   swallowed |-> swallowed, result |-> result]
           next == delete_file(p, tree, NoFailure, acc)
       IN  /\ store' = next.store
           /\ registry' = [registry EXCEPT !.files = next.files]
           /\ result' = next.result
           /\ st_log' = Append(st_log, [path |-> p, kind |-> Head(cy_todo).kind, op |-> "delete"])
    /\ cy_todo' = Tail(cy_todo)
    /\ UNCHANGED <<tree, saved, lastOp, wasStable, swallowed, edits,
                   cy_pc, cy_skipped, st_pc, st_count>>
    /\ OrOthersUnchanged

\* Step 4d and registry.save(); sync() returns.
OrSave ==
    /\ cy_pc = "files" /\ cy_todo = <<>>
    /\ result' = [result EXCEPT !.skipped = cy_skipped]
    /\ saved' = registry
    /\ cy_pc' = "idle"
    /\ lastOp' = "sync"
    /\ UNCHANGED <<tree, registry, store, wasStable, swallowed, edits,
                   cy_todo, cy_skipped, order_vars>>
    /\ OrOthersUnchanged

NextOrder ==
    \/ OrEdit
    \/ OrStart
    \/ OrUpsert
    \/ OrUpdate
    \/ OrOverflow
    \/ OrCount
    \/ OrDelete
    \/ OrSave

SpecOrder == InitOrder /\ [][NextOrder]_vars

\* C25: within a cycle, for every added or modified file the rows are
\* upserted, then the overflow deletion is decided and done, then the
\* registry entry is updated: no registry update of a file comes before the
\* overflow decision of that file. An added file has no earlier rows, so the
\* decision is asked of modified files only.
C25_Ops(p, op) == {i \in DOMAIN st_log : st_log[i].path = p /\ st_log[i].op = op}
C25_OverflowDecided(p) == C25_Ops(p, "overflow_deleted") \cup C25_Ops(p, "overflow_none")
C25_UpsertOverflowRegistry ==
    \A p \in Paths :
        \A u \in C25_Ops(p, "registry_update") :
            /\ \E i \in C25_Ops(p, "upsert") : i < u
            /\ st_log[u].kind = "modify" => \E i \in C25_OverflowDecided(p) : i < u

\* ------------------------- download_model and its progress monitor thread

\* The call whose download the monitor thread watches.
PgCall == 1

\* One call of download_model; no monitor thread yet, no reader yet.
InitProgress ==
    /\ dl_lock = NoCall
    /\ dl_state \in {NoState, [status |-> "ready", progress |-> 100],
                     [status |-> "error", progress |-> 0]}
    /\ dl_pc = [c \in DlCalls |-> "start"]
    /\ dl_found = [c \in DlCalls |-> "none"]
    /\ dl_ret = [c \in DlCalls |-> NoInfo]
    /\ dl_did = {}
    /\ mn_pc = "off" /\ mn_stop = FALSE /\ mn_progress = 0 /\ mn_seen = <<>>
    /\ IdleSync /\ IdleDetect /\ IdleUpsert /\ IdleRevert
    /\ IdleCycle /\ IdleDecide /\ IdleAgentic /\ IdleHybrid /\ IdleRerank /\ IdleChunk
    /\ IdleOrder /\ IdleAfterMonitor

PgOthersUnchanged ==
    UNCHANGED <<sync_vars, detect_vars, upsert_vars, revert_vars, cycle_vars,
                decide_vars, agentic_vars, hybrid_vars, rerank_vars, chunk_vars,
                order_vars, after_monitor_vars>>

\* monitor_thread.start(), then snapshot_download(model_id) is called.
PgSnapshotStart ==
    /\ dl_pc[PgCall] = "download"
    /\ PgCall \notin dl_did
    /\ dl_did' = dl_did \cup {PgCall}
    /\ mn_pc' = "test"
    /\ UNCHANGED <<dl_lock, dl_state, dl_pc, dl_found, dl_ret, mn_stop, mn_progress, mn_seen>>
    /\ PgOthersUnchanged

\* while not stop_event.is_set(): the size is measured and the progress computed.
MnMeasure ==
    /\ mn_pc = "test"
    /\ ~mn_stop
    /\ \E progress \in DlMonitorProgress : mn_progress' = progress
    /\ mn_pc' = "write"
    /\ UNCHANGED <<download_vars, mn_stop, mn_seen>>
    /\ PgOthersUnchanged

\* The loop test finds stop_event set: the thread ends.
MnEnd ==
    /\ mn_pc = "test"
    /\ mn_stop
    /\ mn_pc' = "ended"
    /\ UNCHANGED <<download_vars, mn_stop, mn_progress, mn_seen>>
    /\ PgOthersUnchanged

\* with _download_lock: the progress is written; stop_event.wait(1.0) follows.
MnWrite ==
    /\ mn_pc = "write"
    /\ can_acquire(dl_lock)
    /\ dl_state' = IF dl_state.status # "absent"
                   THEN [dl_state EXCEPT !.progress = mn_progress]
                   ELSE dl_state
    /\ mn_pc' = "test"
    /\ UNCHANGED <<dl_lock, dl_pc, dl_found, dl_ret, dl_did, mn_stop, mn_progress, mn_seen>>
    /\ PgOthersUnchanged

\* snapshot_download returns or raises; finally: stop_event.set().
PgSnapshotEnd ==
    /\ dl_pc[PgCall] = "download"
    /\ PgCall \in dl_did
    /\ mn_stop' = TRUE
    /\ \E pc \in {"join", "join_failed"} : dl_pc' = [dl_pc EXCEPT ![PgCall] = pc]
    /\ UNCHANGED <<dl_lock, dl_state, dl_found, dl_ret, dl_did, mn_pc, mn_progress, mn_seen>>
    /\ PgOthersUnchanged

\* monitor_thread.join(timeout=5.0) returns when the thread has ended or when
\* the five seconds have passed.
join_returns(monitor_pc, timed_out) == monitor_pc = "ended" \/ timed_out

PgJoin ==
    /\ dl_pc[PgCall] \in {"join", "join_failed"}
    /\ \E timed_out \in BOOLEAN : join_returns(mn_pc, timed_out)
    /\ dl_pc' = [dl_pc EXCEPT ![PgCall] = IF @ = "join" THEN "downloaded" ELSE "failed"]
    /\ UNCHANGED <<dl_lock, dl_state, dl_found, dl_ret, dl_did, monitor_vars>>
    /\ PgOthersUnchanged

\* get_model_info: the state of the model under the lock, else what the cache
\* says.
get_model_info(state, cached) ==
    IF state.status # "absent" THEN [status |-> state.status, progress |-> state.progress]
    ELSE IF cached THEN [status |-> "ready", progress |-> 100]
    ELSE [status |-> "not_found", progress |-> 0]

PgRead ==
    /\ can_acquire(dl_lock)
    /\ \E cached \in BOOLEAN : mn_seen' = <<get_model_info(dl_state, cached)>>
    /\ mn_seen' # mn_seen
    /\ UNCHANGED <<download_vars, mn_pc, mn_stop, mn_progress>>
    /\ PgOthersUnchanged

\* The other statements of download_model touch the download state only.
PgDownload ==
    /\ \/ DlAcquire(PgCall) \/ DlCheck(PgCall) \/ DlMark(PgCall)
       \/ DlProgress90(PgCall) \/ DlLoad(PgCall) \/ DlProgress100(PgCall)
       \/ DlReady(PgCall) \/ DlError(PgCall)

NextProgress ==
    \/ PgDownload
    \/ PgSnapshotStart
    \/ MnMeasure
    \/ MnEnd
    \/ MnWrite
    \/ PgSnapshotEnd
    \/ PgJoin
    \/ PgRead

SpecProgress == InitProgress /\ [][NextProgress]_vars

\* C26: while the status is downloading and the model has not finished
\* loading, the progress is at most 90; once the status is ready the progress
\* is 100, in the state and in what any reader gets.
C26_LoadFinished == dl_pc[PgCall] \in {"loaded", "finish", "returned"}
C26_ProgressWithinStatus ==
    /\ (dl_state.status = "downloading" /\ ~C26_LoadFinished) => dl_state.progress <= 90
    /\ dl_state.status = "ready" => dl_state.progress = 100
    /\ \A i \in DOMAIN mn_seen : mn_seen[i].status = "ready" => mn_seen[i].progress = 100

\* C27: a file that is on disk and has a registry entry, and whose state
\* cannot be read in a sync() cycle, is only reported: the cycle leaves its
\* rows in the store and its registry entry as they were.
C27_Unreadable(rp) ==
    /\ rp \in DOMAIN tree
    /\ rp \in DOMAIN registry.files
    /\ rp \in ReportedCause(result', {"state"})
C27_UnreadableStep ==
    lastOp' = "sync" =>
        \A rp \in Paths :
            C27_Unreadable(rp) =>
                /\ RowsOf(store', rp) = RowsOf(store, rp)
                /\ rp \in DOMAIN registry'.files
                /\ registry'.files[rp] = registry.files[rp]
C27_UnreadableOnlyReported == [][C27_UnreadableStep]_vars

\* ------------------------------- download_model and clear_download_state

\* clear_download_state: under the lock, the state of the model is deleted;
\* nothing happens when there is none.
DlClear ==
    /\ can_acquire(dl_lock)
    /\ dl_state # NoState
    /\ dl_state' = NoState
    /\ UNCHANGED <<dl_lock, dl_pc, dl_found, dl_ret, dl_did>>
    /\ DlOthersUnchanged

NextClear ==
    \/ NextDownload
    \/ DlClear

SpecClear == InitDownload /\ [][NextClear]_vars

\* C28: at most one download of the model is in progress at any time, also
\* when clear_download_state runs while a download is running.
C28_OneDownloadInProgress ==
    Cardinality({c \in DlCalls : dl_pc[c] \in DownloadPhases}) <= 1

\* ------------------------ ParallelQueryProcessor.process_and_aggregate

\* Retriever.retrieve: chunks of distinct ids, the best score first.
PaRetrievals ==
    {chunks \in BoundedSeqs(AgChunks, MaxResultChunks) :
        /\ \A i, j \in DOMAIN chunks : i # j => chunks[i].id # chunks[j].id
        /\ \A i, j \in DOMAIN chunks : i < j => chunks[i].score >= chunks[j].score}

\* process_queries when no retrieval raises: the list of results, one list
\* per order in which the futures complete.
completed_results(queries, retrieved) ==
    IF queries = <<>> THEN {<<>>}
    ELSE IF Len(queries) = 1
    THEN {<<[query |-> queries[1], chunks |-> retrieved[queries[1]]]>>}
    ELSE {[i \in DOMAIN order |->
                [query |-> queries[order[i]], chunks |-> retrieved[queries[order[i]]]]] :
            order \in Orders(DOMAIN queries)}

process_and_aggregate(queries, retrieved, top_k_final, dedup) ==
    {aggregate_results(results, top_k_final, dedup) :
        results \in completed_results(queries, retrieved)}

InitCombine ==
    /\ pa_pc = "input"
    /\ pa_queries \in BoundedSeqs(Queries, MaxQueries)
    /\ pa_retrieved \in [Queries -> PaRetrievals]
    /\ pa_top_k \in 1..MaxTopK
    /\ pa_out = <<>>
    /\ IdleSync /\ IdleDetect /\ IdleUpsert /\ IdleRevert
    /\ IdleCycle /\ IdleDecide /\ IdleDownload /\ IdleAgentic /\ IdleHybrid /\ IdleRerank
    /\ IdleChunk /\ IdleOrder /\ IdleMonitor

ProcessAndAggregate ==
    /\ pa_pc = "input"
    /\ \E aggregated \in process_and_aggregate(pa_queries, pa_retrieved, pa_top_k, TRUE) :
            pa_out' = <<aggregated>>
    /\ pa_pc' = "done"
    /\ UNCHANGED <<pa_queries, pa_retrieved, pa_top_k>>
    /\ UNCHANGED <<sync_vars, detect_vars, upsert_vars, revert_vars, cycle_vars,
                   decide_vars, download_vars, agentic_vars, hybrid_vars, rerank_vars,
                   chunk_vars, order_vars, monitor_vars>>

NextCombine == ProcessAndAggregate

SpecCombine == InitCombine /\ [][NextCombine]_vars

\* C29: process_and_aggregate returns the same AggregatedResult whatever the
\* order in which the retrievals complete: the queries come in the order
\* given, and the chunks, scores and ranks are those of every other
\* completion order.
C29_CompletionOrderIrrelevant ==
    pa_pc = "done" =>
        /\ pa_out[1].queries = pa_queries
        /\ \A other \in process_and_aggregate(pa_queries, pa_retrieved, pa_top_k, TRUE) :
               other = pa_out[1]

====
